---- MODULE Spec2Model ----
(***************************************************************************)
(* GST reconciliation tool (src/app.py, class GSTReconciliationApp).       *)
(*                                                                         *)
(* Representation.                                                         *)
(*   - A Python str is a sequence of one-character strings.                *)
(*   - A table cell is [kind, text]: kind "str" carries text, "nan" is a   *)
(*     float NaN (an empty CSV cell), "none" is Python None.               *)
(*   - A Timestamp is [nat, t]: nat = TRUE is NaT, otherwise t counts      *)
(*     ticks of 1/TicksPerDay day (the time of day is kept, as pandas      *)
(*     keeps it).                                                          *)
(*   - A float is an IEEE-754 binary64 value [neg, mag]: mag is its        *)
(*     magnitude in units of 2^-80, held in five limbs of 20 bits; every   *)
(*     operation is the exact one rounded to 53 bits, ties to even.        *)
(***************************************************************************)
EXTENDS Integers, Sequences, FiniteSets, TLC

VARIABLES
    gstr2a_data,             \* self.gstr2a_data: the rows of the GSTR-2A ledger
    books_data,              \* self.books_data: the rows of the Books ledger
    reconciliation_results,  \* self.reconciliation_results: None or the report
    summary_text,            \* the text of the summary box self.summary_text
    discrepancy_trees,       \* self.discrepancy_trees: the lines of each result view
    date_tolerance,          \* self.date_tolerance (days)
    amount_tolerance,        \* self.amount_tolerance (rupees, a float)
    auto_clean_gstin,        \* self.auto_clean_gstin
    call                     \* the last method invoked, its inputs and what it returned or showed

vars == <<gstr2a_data, books_data, reconciliation_results, summary_text,
          discrepancy_trees, date_tolerance, amount_tolerance, auto_clean_gstin, call>>

(***************************************************************************)
(* Bounds of the model and program constants.                              *)
(***************************************************************************)
MaxStrLen == 4

TicksPerDay == 2

MaxDateTol == 3

MaxAmountTol == 1

MaxLedgerA == 3

MaxLedgerB == 2

GstinLen == 15

DefaultDateTolerance == 3

(***************************************************************************)
(* Python str operations.                                                  *)
(***************************************************************************)
LowerSeq == <<"a","b","c","d","e","f","g","h","i","j","k","l","m",
              "n","o","p","q","r","s","t","u","v","w","x","y","z">>

UpperSeq == <<"A","B","C","D","E","F","G","H","I","J","K","L","M",
              "N","O","P","Q","R","S","T","U","V","W","X","Y","Z">>

DigitSeq == <<"0","1","2","3","4","5","6","7","8","9">>

Range(s) == {s[i] : i \in DOMAIN s}

IsDigit(c) == c \in Range(DigitSeq)

IsUpper(c) == c \in Range(UpperSeq)

IsLower(c) == c \in Range(LowerSeq)

IsSpace(c) == c \in {" ", "\t"}

ToUpper(c) == IF IsLower(c) THEN UpperSeq[CHOOSE i \in DOMAIN LowerSeq : LowerSeq[i] = c] ELSE c

ToLower(c) == IF IsUpper(c) THEN LowerSeq[CHOOSE i \in DOMAIN UpperSeq : UpperSeq[i] = c] ELSE c

str_upper(s) == [i \in DOMAIN s |-> ToUpper(s[i])]

str_lower(s) == [i \in DOMAIN s |-> ToLower(s[i])]

str_strip(s) ==
    LET keep == {i \in DOMAIN s : ~IsSpace(s[i])}
    IN  IF keep = {} THEN <<>>
        ELSE SubSeq(s, CHOOSE i \in keep : \A j \in keep : i <= j,
                       CHOOSE i \in keep : \A j \in keep : j <= i)

IsUpperAlnum(c) == IsUpper(c) \/ IsDigit(c)

IsLowerAlnum(c) == IsLower(c) \/ IsDigit(c)

\* s.ljust(n, c)
str_ljust(s, n, c) == [i \in 1..(IF Len(s) >= n THEN Len(s) ELSE n) |-> IF i <= Len(s) THEN s[i] ELSE c]

(***************************************************************************)
(* Python float (IEEE 754 binary64).  A float is [neg, mag]: mag is the    *)
(* magnitude in units of 2^-80 as five limbs of 20 bits, least significant *)
(* first; every value the program computes here is a multiple of that unit *)
(* (an amount is zero or at least 0.00001, and below 2^20).  An            *)
(* operation is the exact operation followed by rounding to 53 significant *)
(* bits, ties to even.                                                     *)
(***************************************************************************)
MantissaBits == 53

LimbBase == 2^20

BigZero == <<0, 0, 0, 0, 0>>

BigOne == <<1, 0, 0, 0, 0>>

\* a + b
BigAdd(a, b) ==
    LET s1 == a[1] + b[1]
        s2 == a[2] + b[2] + (s1 \div LimbBase)
        s3 == a[3] + b[3] + (s2 \div LimbBase)
        s4 == a[4] + b[4] + (s3 \div LimbBase)
        s5 == a[5] + b[5] + (s4 \div LimbBase)
    IN  <<s1 % LimbBase, s2 % LimbBase, s3 % LimbBase, s4 % LimbBase, s5 % LimbBase>>

\* a - b, for a >= b
BigSub(a, b) ==
    LET d1 == a[1] - b[1]
        d2 == a[2] - b[2] - (IF d1 < 0 THEN 1 ELSE 0)
        d3 == a[3] - b[3] - (IF d2 < 0 THEN 1 ELSE 0)
        d4 == a[4] - b[4] - (IF d3 < 0 THEN 1 ELSE 0)
        d5 == a[5] - b[5] - (IF d4 < 0 THEN 1 ELSE 0)
    IN  <<d1 % LimbBase, d2 % LimbBase, d3 % LimbBase, d4 % LimbBase, d5 % LimbBase>>

\* a < b
BigLess(a, b) ==
    \E i \in 1..5 : a[i] < b[i] /\ \A j \in (i + 1)..5 : a[j] = b[j]

\* the quotient and the remainder of a by a small d
BigDivSmall(a, d) ==
    LET r5 == a[5] % d
        n4 == r5 * LimbBase + a[4]
        n3 == (n4 % d) * LimbBase + a[3]
        n2 == (n3 % d) * LimbBase + a[2]
        n1 == (n2 % d) * LimbBase + a[1]
    IN  [q |-> <<n1 \div d, n2 \div d, n3 \div d, n4 \div d, a[5] \div d>>, r |-> n1 % d]

RECURSIVE IntBitLen(_)
IntBitLen(n) == IF n = 0 THEN 0 ELSE 1 + IntBitLen(n \div 2)

\* the number of significant bits of a
BigBitLen(a) ==
    IF a = BigZero THEN 0
    ELSE LET top == CHOOSE i \in 1..5 : a[i] # 0 /\ \A j \in (i + 1)..5 : a[j] = 0
         IN  20 * (top - 1) + IntBitLen(a[top])

\* limb i of a, 0 beyond its ends
Limb(a, i) == IF i \in 1..5 THEN a[i] ELSE 0

\* a shifted right by s bits, with the last bit dropped (g) and whether any
\* earlier dropped bit, or the inexact flag st, was set
BigShiftRight(a, s, g, st) ==
    IF s = 0 THEN [q |-> a, g |-> g, st |-> st]
    ELSE LET w  == s \div 20
             b  == s % 20
             gw == (s - 1) \div 20
             gb == (s - 1) % 20
         IN  [q  |-> [i \in 1..5 |-> (Limb(a, i + w) \div 2^b)
                                     + (Limb(a, i + w + 1) % 2^b) * 2^(20 - b)],
              g  |-> (Limb(a, gw + 1) \div 2^gb) % 2 = 1,
              st |-> st \/ g \/ Limb(a, gw + 1) % 2^gb # 0 \/ \E j \in 1..gw : a[j] # 0]

\* a shifted left by s bits
BigShiftLeft(a, s) ==
    LET w == s \div 20
        b == s % 20
    IN  [i \in 1..5 |-> (Limb(a, i - w) % 2^(20 - b)) * 2^b
                        + (Limb(a, i - w - 1) \div 2^(20 - b))]

\* a, with a nonzero remainder below its unit when inexact, rounded to
\* MantissaBits significant bits, ties to even
round_to_double(a, inexact) ==
    IF BigBitLen(a) <= MantissaBits THEN a
    ELSE LET s  == BigBitLen(a) - MantissaBits
             sh == BigShiftRight(a, s, FALSE, inexact)
             up == sh.g /\ (sh.st \/ sh.q[1] % 2 = 1)
         IN  BigShiftLeft(IF up THEN BigAdd(sh.q, BigOne) ELSE sh.q, s)

Float(neg, mag) == [neg |-> neg, mag |-> mag]

RECURSIVE Pow10(_)
Pow10(k) == IF k = 0 THEN 1 ELSE 10 * Pow10(k - 1)

\* a \div 10^k, and whether anything was left
RECURSIVE BigDivPow10(_, _)
BigDivPow10(a, k) ==
    IF k <= 3
    THEN LET d == BigDivSmall(a, Pow10(k)) IN [q |-> d.q, inexact |-> d.r # 0]
    ELSE LET d    == BigDivSmall(a, 1000)
             rest == BigDivPow10(d.q, k - 3)
         IN  [q |-> rest.q, inexact |-> rest.inexact \/ d.r # 0]

\* the float nearest to n / 10^k: what float("n.kkk") and pd.to_numeric give
float_of_decimal(n, k) ==
    LET d == BigDivPow10(<<0, 0, 0, 0, n>>, k)
    IN  Float(FALSE, round_to_double(d.q, d.inexact))

\* -x
float_neg(x) == Float(~x.neg, x.mag)

\* abs(x)
float_abs(x) == Float(FALSE, x.mag)

\* x + y
float_add(x, y) ==
    IF x.neg = y.neg THEN Float(x.neg, round_to_double(BigAdd(x.mag, y.mag), FALSE))
    ELSE IF x.mag = y.mag THEN Float(FALSE, BigZero)
    ELSE IF BigLess(x.mag, y.mag)
    THEN Float(y.neg, round_to_double(BigSub(y.mag, x.mag), FALSE))
    ELSE Float(x.neg, round_to_double(BigSub(x.mag, y.mag), FALSE))

\* x - y
float_sub(x, y) == float_add(x, float_neg(y))

\* x > y
float_gt(x, y) ==
    IF x.mag = BigZero /\ y.mag = BigZero THEN FALSE
    ELSE IF x.neg # y.neg THEN y.neg
    ELSE IF x.neg THEN BigLess(x.mag, y.mag)
    ELSE BigLess(y.mag, x.mag)

\* x == y
float_eq(x, y) == (x.mag = BigZero /\ y.mag = BigZero) \/ x = y

\* a * m, for a small m, and the carry out of the top limb
BigMulSmall(a, m) ==
    LET p1 == a[1] * m
        p2 == a[2] * m + (p1 \div LimbBase)
        p3 == a[3] * m + (p2 \div LimbBase)
        p4 == a[4] * m + (p3 \div LimbBase)
        p5 == a[5] * m + (p4 \div LimbBase)
    IN  <<p1 % LimbBase, p2 % LimbBase, p3 % LimbBase, p4 % LimbBase, p5>>

\* f"{x:.2f}": the sign and the hundredths nearest to the exact value of x, ties to even
format_2f(x) ==
    LET m     == BigMulSmall(x.mag, 100)
        whole == m[5]
        frac  == <<m[1], m[2], m[3], m[4], 0>>
        half  == <<0, 0, 0, LimbBase \div 2, 0>>
        up    == BigLess(half, frac) \/ (frac = half /\ whole % 2 = 1)
    IN  [neg |-> x.neg, hundredths |-> IF up THEN whole + 1 ELSE whole]

\* 0.0
FloatZero == Float(FALSE, BigZero)

\* the decimal digits of n
RECURSIVE IntToDigits(_)
IntToDigits(n) ==
    IF n < 10 THEN <<DigitSeq[n + 1]>> ELSE Append(IntToDigits(n \div 10), DigitSeq[(n % 10) + 1])

\* s, zero-filled on the left to n characters
RECURSIVE str_zfill(_, _)
str_zfill(s, n) == IF Len(s) >= n THEN s ELSE str_zfill(<<"0">> \o s, n)

\* a * 10^k, the whole part in the top limb
RECURSIVE BigMulPow10(_, _)
BigMulPow10(a, k) == IF k = 0 THEN a ELSE BigMulPow10(BigMulSmall(a, 10), k - 1)

\* the shortest decimal n / 10^k that float() reads back as x (what repr prints):
\* the k-decimal numbers on either side of x are tried, the nearer one first, for
\* k = 0, 1, 2, ...
RECURSIVE shortest_decimal(_, _)
shortest_decimal(x, k) ==
    LET m     == BigMulPow10(x.mag, k)
        frac  == <<m[1], m[2], m[3], m[4], 0>>
        half  == <<0, 0, 0, LimbBase \div 2, 0>>
        near  == IF BigLess(half, frac) THEN m[5] + 1 ELSE m[5]
        far   == IF BigLess(half, frac) THEN m[5] ELSE m[5] + 1
    IN  IF float_of_decimal(near, k).mag = x.mag THEN [n |-> near, k |-> k]
        ELSE IF float_of_decimal(far, k).mag = x.mag THEN [n |-> far, k |-> k]
        ELSE shortest_decimal(x, k + 1)

\* repr(x), str(x): positional with at least one decimal, or d.ddde-XX when the
\* decimal exponent is below -4 (no value here reaches 1e16)
float_repr(x) ==
    LET d      == shortest_decimal(x, 0)
        digits == IntToDigits(d.n)
        exp    == Len(digits) - 1 - d.k
        sign   == IF x.neg THEN <<"-">> ELSE <<>>
        padded == str_zfill(digits, d.k + 1)
        whole  == SubSeq(padded, 1, Len(padded) - d.k)
        decs   == SubSeq(padded, Len(padded) - d.k + 1, Len(padded))
    IN  IF d.n # 0 /\ exp < -4
        THEN sign \o <<digits[1]>>
                  \o (IF Len(digits) > 1 THEN <<".">> \o SubSeq(digits, 2, Len(digits)) ELSE <<>>)
                  \o <<"e", "-">> \o str_zfill(IntToDigits(-exp), 2)
        ELSE sign \o whole \o <<".">> \o (IF d.k = 0 THEN <<"0">> ELSE decs)

\* line 25: self.amount_tolerance = 1.0
DefaultAmountTolerance == float_of_decimal(1, 0)

(***************************************************************************)
(* Cells.                                                                  *)
(***************************************************************************)
StrCell(s) == [kind |-> "str", text |-> s]

NaNCell == [kind |-> "nan", text |-> <<>>]

NoneCell == [kind |-> "none", text |-> <<>>]

\* pd.isna(x)
pd_isna(c) == c.kind \in {"nan", "none"}

\* a cell holding a float
FloatCell(x) == [kind |-> "float", text |-> <<>>, value |-> x]

\* str(x), Series.astype(str)
astype_str(c) ==
    CASE c.kind = "str"   -> c.text
      [] c.kind = "nan"   -> <<"n","a","n">>
      [] c.kind = "none"  -> <<"N","o","n","e">>

(***************************************************************************)
(* clean_gstin                                                             *)
(***************************************************************************)
\* re.sub(r'[^A-Z0-9]', '', str(gstin).strip().upper())
gstin_stripped(c) == SelectSeq(str_upper(str_strip(astype_str(c))), IsUpperAlnum)

\* lines 922-926: a longer string loses padding it never gets (mutant)
gstin_fit_nopad(g) ==
    IF Len(g) > GstinLen THEN SubSeq(g, 1, GstinLen) ELSE g

\* lines 922-926: truncate to 15, or right-pad with 'X' to 15
gstin_fit(g) ==
    IF Len(g) > GstinLen THEN SubSeq(g, 1, GstinLen)
    ELSE IF Len(g) < GstinLen THEN str_ljust(g, GstinLen, "X")
    ELSE g

\* line 913 without the textual placeholders (mutant)
gstin_is_blank_nulls_only(c) == pd_isna(c) \/ str_strip(astype_str(c)) = <<>>

\* line 913: pd.isna(gstin) or str(gstin).strip().lower() in ['', 'nan', 'none']
gstin_is_blank(c) ==
    \/ pd_isna(c)
    \/ str_lower(str_strip(astype_str(c))) \in {<<>>, <<"n","a","n">>, <<"n","o","n","e">>}

\* line 930 with [0-9A-Z] as the thirteenth character (mutant)
gstin_well_formed_any13(g) ==
    /\ Len(g) = GstinLen
    /\ \A i \in 1..2 : IsDigit(g[i])
    /\ \A i \in 3..7 : IsUpper(g[i])
    /\ \A i \in 8..11 : IsDigit(g[i])
    /\ IsUpper(g[12])
    /\ IsUpperAlnum(g[13])
    /\ g[14] = "Z"
    /\ IsUpperAlnum(g[15])

\* line 930: the structural pattern [0-9]{2}[A-Z]{5}[0-9]{4}[A-Z][1-9A-Z]Z[0-9A-Z]
gstin_well_formed(g) ==
    /\ Len(g) = GstinLen
    /\ IsDigit(g[1]) /\ IsDigit(g[2])
    /\ \A i \in 1..2 : IsDigit(g[i])
    /\ \A i \in 3..7 : IsUpper(g[i])
    /\ \A i \in 8..11 : IsDigit(g[i])
    /\ IsUpper(g[12])
    /\ (IsUpper(g[13]) \/ (IsDigit(g[13]) /\ g[13] # "0"))
    /\ g[14] = "Z"
    /\ IsUpperAlnum(g[15])

\* the value clean_gstin returns
clean_gstin(c) ==
    IF gstin_is_blank(c) THEN <<>>
    ELSE gstin_fit(gstin_stripped(c))

\* whether clean_gstin logs "appears to be invalid after cleaning" (line 934)
clean_gstin_warns(c) ==
    /\ ~gstin_is_blank(c)
    /\ ~gstin_well_formed(gstin_fit(gstin_stripped(c)))

(***************************************************************************)
(* Input strings for clean_gstin: every string of up to MaxStrLen          *)
(* characters over a small alphabet, alone and appended to the first 12    *)
(* characters of a well-formed identifier, and the null cells.             *)
(***************************************************************************)
GstinAlphabet == {"a", "Z", "0", "1", " ", "-"}

StrsUpTo(A, n) == UNION {[1..k -> A] : k \in 0..n}

GstinBase == <<"2","2","A","A","A","A","A","0","0","0","0","A">>

NullTexts == {<<"n","a","n">>, <<"N","o","n","e">>, <<" ","N","a","N"," ">>, <<"N","O","N","E">>}

RawGstinPool ==
    {NaNCell, NoneCell}
    \cup {StrCell(s) : s \in StrsUpTo(GstinAlphabet, MaxStrLen)}
    \cup {StrCell(GstinBase \o s) : s \in StrsUpTo(GstinAlphabet, MaxStrLen)}
    \cup {StrCell(s) : s \in NullTexts}

(***************************************************************************)
(* clean_and_transform_data: the column names (lines 776-838).             *)
(***************************************************************************)
\* lines 778-791: the variations of each standard column name
Variations(std) ==
    CASE std = "invoice_no" ->
            {<<"i","n","v","o","i","c","e"," ","n","o">>,
             <<"i","n","v","o","i","c","e","n","o">>,
             <<"b","i","l","l"," ","n","o">>,
             <<"b","i","l","l","n","o">>,
             <<"i","n","v","o","i","c","e">>}
      [] std = "invoice_date" ->
            {<<"i","n","v","o","i","c","e"," ","d","a","t","e">>,
             <<"i","n","v","o","i","c","e","d","a","t","e">>,
             <<"b","i","l","l"," ","d","a","t","e">>,
             <<"b","i","l","l","d","a","t","e">>,
             <<"d","a","t","e">>}
      [] std = "supplier_gstin" ->
            {<<"s","u","p","p","l","i","e","r"," ","g","s","t","i","n">>,
             <<"s","u","p","p","l","i","e","r","g","s","t","i","n">>,
             <<"g","s","t","i","n">>,
             <<"p","a","r","t","y"," ","g","s","t","i","n">>,
             <<"r","e","c","e","i","v","e","r"," ","g","s","t","i","n">>}
      [] std = "taxable_value" ->
            {<<"t","a","x","a","b","l","e"," ","v","a","l","u","e">>,
             <<"t","a","x","a","b","l","e","v","a","l","u","e">>,
             <<"v","a","l","u","e">>,
             <<"n","e","t"," ","a","m","o","u","n","t">>}
      [] std = "cgst" ->
            {<<"c","g","s","t">>,
             <<"c","e","n","t","r","a","l"," ","t","a","x">>}
      [] std = "sgst" ->
            {<<"s","g","s","t">>,
             <<"s","t","a","t","e"," ","t","a","x">>}
      [] std = "igst" ->
            {<<"i","g","s","t">>,
             <<"i","n","t","e","g","r","a","t","e","d"," ","t","a","x">>}
      [] std = "total_amount" ->
            {<<"t","o","t","a","l"," ","a","m","o","u","n","t">>,
             <<"t","o","t","a","l","a","m","o","u","n","t">>,
             <<"a","m","o","u","n","t">>,
             <<"g","r","o","s","s"," ","a","m","o","u","n","t">>}
      [] std = "place_of_supply" ->
            {<<"p","l","a","c","e"," ","o","f"," ","s","u","p","p","l","y">>,
             <<"p","l","a","c","e","o","f","s","u","p","p","l","y">>,
             <<"p","o","s">>}
      [] std = "book_entry_date" ->
            {<<"b","o","o","k"," ","e","n","t","r","y"," ","d","a","t","e">>,
             <<"b","o","o","k","e","n","t","r","y","d","a","t","e">>,
             <<"e","n","t","r","y"," ","d","a","t","e">>,
             <<"a","c","c","o","u","n","t","i","n","g"," ","d","a","t","e">>}

\* lines 778-791: the keys of standard_columns_map, in order
StdNames(source) ==
    <<"invoice_no", "invoice_date", "supplier_gstin", "taxable_value", "cgst",
      "sgst", "igst", "total_amount", "place_of_supply">>
    \o (IF source = "Books" THEN <<"book_entry_date">> ELSE <<>>)

NotBlankChar(c) == c # " "

\* line 795: df.columns.str.strip().str.lower().str.replace(r'[^a-z0-9]', '')
normalize_column(name) == SelectSeq(str_lower(str_strip(name)), IsLowerAlnum)

\* lines 798-802: reverse_standard_map, as the set of its (key, standard name) items
reverse_standard_items ==
    UNION {{<<str_lower(SelectSeq(v, NotBlankChar)), std>> : v \in Variations(std)} :
              std \in Range(StdNames("Books"))}

\* lines 828-831: the standard name a normalized column is renamed to, "" if none
reverse_standard_map(source, col) ==
    LET hits == {it \in reverse_standard_items : it[1] = col /\ it[2] \in Range(StdNames(source))}
    IN  IF hits = {} THEN "" ELSE (CHOOSE it \in hits : TRUE)[2]

\* the columns of df that carry the standard name std after the renaming of line 833
columns_named(df, source, std) ==
    {i \in DOMAIN df.cols : reverse_standard_map(source, normalize_column(df.cols[i])) = std}

\* two columns of df are renamed to the same standard name (line 833): df[name] is
\* then a DataFrame and pandas raises, in pd.to_datetime (line 849), in .str (line 862),
\* in clean_gstin (line 913), in the assignment of line 881, or at the latest in the
\* reindex of line 903 ("cannot reindex on an axis with duplicate labels")
has_duplicate_labels(df, source) ==
    \E std \in Range(StdNames(source)) : Cardinality(columns_named(df, source, std)) > 1

\* lines 836-838: the cell of row r under std, None when the column was created empty
raw_cell(df, r, source, std) ==
    LET cs == columns_named(df, source, std)
    IN  IF cs = {} THEN NoneCell ELSE df.rows[r][CHOOSE i \in cs : TRUE]

(***************************************************************************)
(* clean_and_transform_data: the values (lines 840-893).                   *)
(***************************************************************************)
NaT == [nat |-> TRUE, t |-> 0]

Timestamp(t) == [nat |-> FALSE, t |-> t]

\* a cell holding a date, with its time of day, that pd.to_datetime parses
DateCell(t) == [kind |-> "date", text |-> <<>>, t |-> t]

\* lines 849-851: pd.to_datetime(..., errors='coerce'): what does not parse is NaT
to_datetime(c) == IF c.kind = "date" THEN Timestamp(c.t) ELSE NaT

IsDigitOrDot(c) == IsDigit(c) \/ c = "."

DigitVal(c) == (CHOOSE i \in DOMAIN DigitSeq : DigitSeq[i] = c) - 1

RECURSIVE DigitsToInt(_)
DigitsToInt(s) ==
    IF s = <<>> THEN 0
    ELSE DigitsToInt(SubSeq(s, 1, Len(s) - 1)) * 10 + DigitVal(s[Len(s)])

\* pd.to_numeric(s, errors='coerce').fillna(0.0) of a string of digits and dots:
\* the float nearest to the decimal, 0.0 for what is no number
to_numeric(s) ==
    LET dots   == {i \in DOMAIN s : s[i] = "."}
        digits == {i \in DOMAIN s : IsDigit(s[i])}
    IN  IF Cardinality(dots) > 1 \/ digits = {} THEN FloatZero
        ELSE LET p  == IF dots = {} THEN Len(s) + 1 ELSE CHOOSE i \in dots : TRUE
                 ip == SubSeq(s, 1, p - 1)
                 fp == SubSeq(s, p + 1, Len(s))
             IN  float_of_decimal(DigitsToInt(ip \o fp), Len(fp))

\* line 862: df[col].astype(str) of one cell; a float prints as repr does
numeric_text(c) == IF c.kind = "float" THEN float_repr(c.value) ELSE astype_str(c)

\* lines 861-864: keeps the sign (mutant)
numeric_column_signed(c) ==
    LET s == numeric_text(c)
        v == to_numeric(SelectSeq(s, IsDigitOrDot))
    IN  IF s # <<>> /\ s[1] = "-" THEN float_neg(v) ELSE v

\* lines 861-864: strip what is not a digit or a dot, parse, NaN becomes 0.0
numeric_column(c) == to_numeric(SelectSeq(numeric_text(c), IsDigitOrDot))

\* lines 869-873 with the setting ignored: the identifier is never cleansed (mutant)
supplier_gstin_column_as_given(c, auto_clean) ==
    IF pd_isna(c) THEN <<>> ELSE astype_str(c)

\* lines 869-878: the identifier, cleansed or as it came
supplier_gstin_column(c, auto_clean) ==
    IF auto_clean THEN clean_gstin(c)
    ELSE IF pd_isna(c) THEN <<>> ELSE astype_str(c)

NullPlaceholders == {<<>>, <<"N","o","n","e">>, <<"n","a","n">>}

\* lines 881-887 with the components trimmed before the test (mutant)
match_key_trimmed(invoice_no, supplier_gstin) ==
    IF str_strip(invoice_no) \in NullPlaceholders \/ str_strip(supplier_gstin) \in NullPlaceholders
    THEN NaNCell
    ELSE StrCell(invoice_no \o <<"_">> \o supplier_gstin)

\* lines 881-887 without the null test (mutant)
match_key_always(invoice_no, supplier_gstin) ==
    StrCell(invoice_no \o <<"_">> \o supplier_gstin)

\* lines 881-887: invoice_no + '_' + supplier_gstin, NaN if either isin(['', 'None', 'nan'])
match_key(invoice_no, supplier_gstin) ==
    IF invoice_no \in NullPlaceholders \/ supplier_gstin \in NullPlaceholders
    THEN NaNCell
    ELSE StrCell(invoice_no \o <<"_">> \o supplier_gstin)

\* line 858: numeric_cols
numeric_cols == {"taxable_value", "cgst", "sgst", "igst", "total_amount"}

\* lines 840-893: the columns of one output row, from their converted values
output_row(inv, date, gstin, num, pos) ==
    [invoice_no      |-> inv,
     invoice_date    |-> date,
     supplier_gstin  |-> gstin,
     taxable_value   |-> num["taxable_value"],
     cgst            |-> num["cgst"],
     sgst            |-> num["sgst"],
     igst            |-> num["igst"],
     total_amount    |-> num["total_amount"],
     place_of_supply |-> IF pd_isna(pos) THEN <<>> ELSE astype_str(pos),
     match_key       |-> match_key(inv, gstin)]

\* lines 771-772 and 842-843: the Books carry book_entry_date as well
with_book_entry_date(base, source, entry_date) ==
    IF source = "Books" THEN base @@ [book_entry_date |-> entry_date] ELSE base

\* lines 840-893: one row of the output
transform_row(df, r, source, auto_clean) ==
    with_book_entry_date(
        output_row(astype_str(raw_cell(df, r, source, "invoice_no")),
                   to_datetime(raw_cell(df, r, source, "invoice_date")),
                   supplier_gstin_column(raw_cell(df, r, source, "supplier_gstin"), auto_clean),
                   [col \in numeric_cols |-> numeric_column(raw_cell(df, r, source, col))],
                   raw_cell(df, r, source, "place_of_supply")),
        source,
        to_datetime(raw_cell(df, r, source, "book_entry_date")))

\* lines 897-899: final_cols_order
final_cols_order(source) == StdNames(source) \o <<"match_key">>

\* line 765: df.empty
df_empty(df) == Len(df.cols) = 0 \/ Len(df.rows) = 0

\* clean_and_transform_data(df, source, custom_mapping) under self.auto_clean_gstin:
\* the table it returns, or the exception it raises.  A non-empty custom_mapping
\* raises at line 809 (str.replace takes no keyword argument regex).
clean_and_transform_data(df, source, custom_mapping, auto_clean) ==
    IF df_empty(df)
    THEN [ok |-> TRUE, cols |-> final_cols_order(source), rows |-> <<>>]
    ELSE IF custom_mapping # {}
    THEN [ok |-> FALSE, error |-> "TypeError"]
    ELSE IF has_duplicate_labels(df, source)
    THEN [ok |-> FALSE, error |-> "Exception"]
    ELSE [ok |-> TRUE, cols |-> final_cols_order(source),
          rows |-> [r \in DOMAIN df.rows |-> transform_row(df, r, source, auto_clean)]]

(***************************************************************************)
(* perform_reconciliation (lines 1358-1514).                               *)
(***************************************************************************)
Abs(x) == IF x < 0 THEN 0 - x ELSE x

\* the subsequence of s at the positions in idx, in order
RECURSIVE SeqAt(_, _)
SeqAt(s, idx) ==
    IF idx = {} THEN <<>>
    ELSE LET i == CHOOSE k \in idx : \A j \in idx : k <= j
         IN  <<s[i]>> \o SeqAt(s, idx \ {i})

\* every enumeration of the set S: the orders in which a Python set may be iterated
Orders(S) == {f \in [1..Cardinality(S) -> S] : \A i, j \in DOMAIN f : i # j => f[i] # f[j]}

\* df.dropna(subset=['match_key']) keeps the rows without a key (mutant)
dropna_match_key_keeps(rows) == rows

\* lines 1368-1369: df.dropna(subset=['match_key'])
dropna_match_key(rows) == SeqAt(rows, {i \in DOMAIN rows : rows[i].match_key.kind = "str"})

\* df.duplicated(keep='first'): the first occurrence is not marked (mutant)
duplicated_keep_first(rows) ==
    SeqAt(rows, {i \in DOMAIN rows :
                    \E j \in DOMAIN rows : j < i /\ rows[j].match_key = rows[i].match_key})

\* lines 1373, 1389: df[df.duplicated(subset=['match_key'], keep=False)]
duplicated_keep_false(rows) ==
    SeqAt(rows, {i \in DOMAIN rows :
                    \E j \in DOMAIN rows : j # i /\ rows[j].match_key = rows[i].match_key})

\* drop_duplicates(keep='last') (mutant)
drop_duplicates_keep_last(rows) ==
    SeqAt(rows, {i \in DOMAIN rows :
                    \A j \in DOMAIN rows : j > i => rows[j].match_key # rows[i].match_key})

\* lines 1407-1408: df.drop_duplicates(subset=['match_key'], keep='first')
drop_duplicates_keep_first(rows) ==
    SeqAt(rows, {i \in DOMAIN rows :
                    \A j \in DOMAIN rows : j < i => rows[j].match_key # rows[i].match_key})

\* set(df['match_key'])
key_set(rows) == {rows[i].match_key.text : i \in DOMAIN rows}

\* df[df['match_key'] == key].iloc[0]
row_of_key(rows, key) ==
    rows[CHOOSE i \in DOMAIN rows :
            /\ rows[i].match_key.text = key
            /\ \A j \in DOMAIN rows : rows[j].match_key.text = key => i <= j]

Issue(tag, n) == [tag |-> tag, n |-> n]

\* the "Details" text: a fixed sentence, or "; ".join(issues)
Detail(text, issues) == [text |-> text, issues |-> issues]

\* row['cgst'] + row['sgst'] + row['igst']
tax_of(row) == float_add(float_add(row.cgst, row.sgst), row.igst)

\* lines 1376-1387
duplicate_in_gstr2a(row) ==
    [Invoice_No |-> row.invoice_no, Source |-> "GSTR-2A",
     Issue_Type |-> <<Issue("Duplicate in GSTR-2A", 0)>>,
     GSTR2A_Date |-> row.invoice_date, Books_Date |-> NaT,
     GSTR2A_GSTIN |-> row.supplier_gstin, Books_GSTIN |-> <<>>,
     Amount_Diff |-> FloatZero, Tax_Diff |-> FloatZero,
     Details |-> Detail("Duplicate invoice found in GSTR-2A data.", <<>>)]

\* lines 1392-1403
duplicate_in_books(row) ==
    [Invoice_No |-> row.invoice_no, Source |-> "Books",
     Issue_Type |-> <<Issue("Duplicate in Books", 0)>>,
     GSTR2A_Date |-> NaT, Books_Date |-> row.invoice_date,
     GSTR2A_GSTIN |-> <<>>, Books_GSTIN |-> row.supplier_gstin,
     Amount_Diff |-> FloatZero, Tax_Diff |-> FloatZero,
     Details |-> Detail("Duplicate invoice found in Books data.", <<>>)]

\* lines 1418-1429
missing_in_books(row) ==
    [Invoice_No |-> row.invoice_no, Source |-> "GSTR-2A",
     Issue_Type |-> <<Issue("Missing in Books", 0)>>,
     GSTR2A_Date |-> row.invoice_date, Books_Date |-> NaT,
     GSTR2A_GSTIN |-> row.supplier_gstin, Books_GSTIN |-> <<>>,
     Amount_Diff |-> row.total_amount, Tax_Diff |-> tax_of(row),
     Details |-> Detail("Invoice found in GSTR-2A but not in Books.", <<>>)]

\* lines 1435-1446 with the differences not negated (mutant)
missing_in_gstr2a_unsigned(row) ==
    [Invoice_No |-> row.invoice_no, Source |-> "Books",
     Issue_Type |-> <<Issue("Missing in GSTR-2A", 0)>>,
     GSTR2A_Date |-> NaT, Books_Date |-> row.invoice_date,
     GSTR2A_GSTIN |-> <<>>, Books_GSTIN |-> row.supplier_gstin,
     Amount_Diff |-> row.total_amount, Tax_Diff |-> tax_of(row),
     Details |-> Detail("Invoice found in Books but not in GSTR-2A.", <<>>)]

\* lines 1435-1446
missing_in_gstr2a(row) ==
    [Invoice_No |-> row.invoice_no, Source |-> "Books",
     Issue_Type |-> <<Issue("Missing in GSTR-2A", 0)>>,
     GSTR2A_Date |-> NaT, Books_Date |-> row.invoice_date,
     GSTR2A_GSTIN |-> <<>>, Books_GSTIN |-> row.supplier_gstin,
     Amount_Diff |-> float_neg(row.total_amount), Tax_Diff |-> float_neg(tax_of(row)),
     Details |-> Detail("Invoice found in Books but not in GSTR-2A.", <<>>)]

\* (a - b).days of two Timestamps: Timedelta.days is the floor of the difference in days
timedelta_days(a, b) == (a.t - b.t) \div TicksPerDay

\* lines 1460-1475 with >= for > (mutant)
date_issues_inclusive(gstr_date, book_date, date_tol) ==
    IF ~gstr_date.nat /\ ~book_date.nat
    THEN IF Abs(timedelta_days(gstr_date, book_date)) >= date_tol
         THEN <<Issue("Date diff", Abs(timedelta_days(gstr_date, book_date)))>>
         ELSE <<>>
    ELSE IF gstr_date.nat # book_date.nat
    THEN <<Issue("One invoice date missing", 0)>>
    ELSE <<>>

\* lines 1460-1475: the date comparison (both values are Timestamps or NaT, so the
\* "Date format error" and "Date comparison error" branches are never taken)
date_issues(gstr_date, book_date, date_tol) ==
    IF ~gstr_date.nat /\ ~book_date.nat
    THEN IF Abs(timedelta_days(gstr_date, book_date)) > date_tol
         THEN <<Issue("Date diff", Abs(timedelta_days(gstr_date, book_date)))>>
         ELSE <<>>
    ELSE IF gstr_date.nat # book_date.nat
    THEN <<Issue("One invoice date missing", 0)>>
    ELSE <<>>

\* lines 1478-1481
gstin_issues(gstr_gstin, book_gstin) ==
    IF gstr_gstin # book_gstin THEN <<Issue("GSTIN mismatch", 0)>> ELSE <<>>

\* lines 1486-1488 with >= for > (mutant)
amount_issues_inclusive(amount_diff, amount_tol) ==
    IF ~float_gt(amount_tol, float_abs(amount_diff))
    THEN <<Issue("Amount diff", format_2f(amount_diff))>> ELSE <<>>

\* lines 1486-1488
amount_issues(amount_diff, amount_tol) ==
    IF float_gt(float_abs(amount_diff), amount_tol)
    THEN <<Issue("Amount diff", format_2f(amount_diff))>> ELSE <<>>

\* lines 1493-1495
tax_issues(tax_diff, amount_tol) ==
    IF float_gt(float_abs(tax_diff), amount_tol)
    THEN <<Issue("Tax diff", format_2f(tax_diff))>> ELSE <<>>

\* lines 1454-1495 without the tax comparison (mutant)
compare_issues_no_tax(gstr_row, book_row, date_tol, amount_tol) ==
    date_issues(gstr_row.invoice_date, book_row.invoice_date, date_tol)
    \o gstin_issues(str_upper(str_strip(gstr_row.supplier_gstin)),
                    str_upper(str_strip(book_row.supplier_gstin)))
    \o amount_issues(float_sub(gstr_row.total_amount, book_row.total_amount), amount_tol)

\* lines 1454-1495: the issues of a common key, in the order they are appended
compare_issues(gstr_row, book_row, date_tol, amount_tol) ==
    date_issues(gstr_row.invoice_date, book_row.invoice_date, date_tol)
    \o gstin_issues(str_upper(str_strip(gstr_row.supplier_gstin)),
                    str_upper(str_strip(book_row.supplier_gstin)))
    \o amount_issues(float_sub(gstr_row.total_amount, book_row.total_amount), amount_tol)
    \o tax_issues(float_sub(tax_of(gstr_row), tax_of(book_row)), amount_tol)

\* lines 1499-1510
mismatch(gstr_row, book_row, date_tol, amount_tol) ==
    [Invoice_No |-> gstr_row.invoice_no, Source |-> "Both",
     Issue_Type |-> compare_issues(gstr_row, book_row, date_tol, amount_tol),
     GSTR2A_Date |-> gstr_row.invoice_date, Books_Date |-> book_row.invoice_date,
     GSTR2A_GSTIN |-> str_upper(str_strip(gstr_row.supplier_gstin)),
     Books_GSTIN |-> str_upper(str_strip(book_row.supplier_gstin)),
     Amount_Diff |-> float_sub(gstr_row.total_amount, book_row.total_amount),
     Tax_Diff |-> float_sub(tax_of(gstr_row), tax_of(book_row)),
     Details |-> Detail("", compare_issues(gstr_row, book_row, date_tol, amount_tol))]

MapSeq(s, Op(_)) == [i \in DOMAIN s |-> Op(s[i])]

\* results.append with the missing invoices reported before the duplicates (mutant)
results_appended_missing_first(dup_gstr, dup_books, miss_books, miss_gstr, both) ==
    miss_books \o miss_gstr \o dup_gstr \o dup_books \o both

\* the rows of results in the order the five loops append them (lines 1375, 1391,
\* 1418, 1435, 1499)
results_appended(dup_gstr, dup_books, miss_books, miss_gstr, both) ==
    dup_gstr \o dup_books \o miss_books \o miss_gstr \o both

\* every key of one ledger, whether or not the other ledger holds it
missing_keys_all(keys, other_keys) == keys

\* gstr_keys - books_keys, books_keys - gstr_keys (lines 1415, 1433)
missing_keys(keys, other_keys) == keys \ other_keys

\* the reports perform_reconciliation may return for the two ledgers: the three loops
\* over key sets (lines 1416, 1433, 1450) run in the iteration order of a Python set
perform_reconciliation(gstr2a, books, date_tol, amount_tol) ==
    LET gstr_data_filtered  == dropna_match_key(gstr2a)
        books_data_filtered == dropna_match_key(books)
        gstr_duplicates     == duplicated_keep_false(gstr_data_filtered)
        books_duplicates    == duplicated_keep_false(books_data_filtered)
        gstr_data_unique    == drop_duplicates_keep_first(gstr_data_filtered)
        books_data_unique   == drop_duplicates_keep_first(books_data_filtered)
        gstr_keys           == key_set(gstr_data_unique)
        books_keys          == key_set(books_data_unique)
        missing_in_books_keys  == missing_keys(gstr_keys, books_keys)
        missing_in_gstr2a_keys == missing_keys(books_keys, gstr_keys)
        common_keys         == gstr_keys \cap books_keys
        reported_keys       == {k \in common_keys :
                                  compare_issues(row_of_key(gstr_data_unique, k),
                                                 row_of_key(books_data_unique, k),
                                                 date_tol, amount_tol) # <<>>}
    IN  { results_appended(
            MapSeq(gstr_duplicates, duplicate_in_gstr2a),
            MapSeq(books_duplicates, duplicate_in_books),
            [i \in DOMAIN o1 |-> missing_in_books(row_of_key(gstr_data_unique, o1[i]))],
            [i \in DOMAIN o2 |-> missing_in_gstr2a(row_of_key(books_data_unique, o2[i]))],
            [i \in DOMAIN o3 |-> mismatch(row_of_key(gstr_data_unique, o3[i]),
                                          row_of_key(books_data_unique, o3[i]),
                                          date_tol, amount_tol)])
          : o1 \in Orders(missing_in_books_keys),
            o2 \in Orders(missing_in_gstr2a_keys),
            o3 \in Orders(reported_keys) }

(***************************************************************************)
(* Input files: tables in the layout of the two templates (lines 556-560,  *)
(* 606-610).                                                               *)
(***************************************************************************)
TemplateColumns(source) ==
    <<<<"I","n","v","o","i","c","e"," ","N","o">>, <<"I","n","v","o","i","c","e"," ","D","a","t","e">>, <<"S","u","p","p","l","i","e","r"," ","G","S","T","I","N">>, <<"T","a","x","a","b","l","e"," ","V","a","l","u","e">>,
      <<"C","G","S","T">>, <<"S","G","S","T">>, <<"I","G","S","T">>, <<"T","o","t","a","l"," ","A","m","o","u","n","t">>, <<"P","l","a","c","e"," ","o","f"," ","S","u","p","p","l","y">>>>
    \o (IF source = "Books" THEN <<<<"B","o","o","k"," ","E","n","t","r","y"," ","D","a","t","e">>>> ELSE <<>>)

\* a row of a template file; f gives the cells of the fields that vary
TemplateRow(source, f) ==
    <<f.inv, f.date, f.gstin, StrCell(<<"0">>), f.cgst, f.sgst, f.igst, f.total, StrCell(<<"0","7">>)>>
    \o (IF source = "Books" THEN <<f.date>> ELSE <<>>)

TemplateTable(source, fs) ==
    [cols |-> TemplateColumns(source), rows |-> [i \in DOMAIN fs |-> TemplateRow(source, fs[i])]]

\* the text of an amount of p paise (p < 1000), as "r.pp"
RupeeText(p) ==
    StrCell(<<DigitSeq[(p \div 100) + 1], ".", DigitSeq[((p % 100) \div 10) + 1], DigitSeq[(p % 10) + 1]>>)

INV1 == StrCell(<<"I","1">>)

INV2 == StrCell(<<"I","2">>)

INV3 == StrCell(<<"I","3">>)

GSTIN1 == StrCell(<<"2","2","A","A","A","A","A","0","0","0","0","A","1","Z","5">>)

\* the fields of a raw row
Fields(inv, gstin, date, total, cgst, sgst, igst) ==
    [inv |-> inv, gstin |-> gstin, date |-> date, total |-> RupeeText(total),
     cgst |-> RupeeText(cgst), sgst |-> RupeeText(sgst), igst |-> RupeeText(igst)]

SeqsUpTo(S, n) == UNION {[1..k -> S] : k \in 0..n}

(***************************************************************************)
(* Ledger pairs for perform_reconciliation, each the normalization of two  *)
(* input files under the settings in force: four families of inputs.       *)
(***************************************************************************)
\* keys: repeated (with another amount, on another day), present on one side only,
\* undefined
KeyRows ==
    {Fields(INV1, GSTIN1, DateCell(0), 100, 10, 0, 0),
     Fields(INV1, GSTIN1, DateCell(0), 250, 0, 20, 5),
     Fields(INV1, GSTIN1, DateCell(TicksPerDay), 100, 10, 0, 0),
     Fields(INV2, GSTIN1, DateCell(0), 300, 0, 0, 30),
     Fields(NaNCell, GSTIN1, DateCell(0), 400, 40, 0, 0)}

KeyRowsBooks ==
    {Fields(INV1, GSTIN1, DateCell(0), 250, 0, 20, 5),
     Fields(INV2, GSTIN1, DateCell(0), 300, 0, 0, 30),
     Fields(INV3, GSTIN1, DateCell(0), 120, 10, 10, 0)}

KeyFamily ==
    [A  |-> {TemplateTable("GSTR-2A", fs) : fs \in SeqsUpTo(KeyRows, MaxLedgerA)},
     B  |-> {TemplateTable("Books", fs) : fs \in SeqsUpTo(KeyRowsBooks, MaxLedgerB)},
     ac |-> {TRUE}, dtols |-> {DefaultDateTolerance}, atols |-> {DefaultAmountTolerance}]

\* dates: absent, and every tick of the days 0 .. MaxDateTol + 1
MaxTick == (MaxDateTol + 2) * TicksPerDay - 1

DateCells == {NaNCell} \cup {DateCell(t) : t \in 0..MaxTick}

DateTables(source) ==
    {TemplateTable(source, <<Fields(INV1, GSTIN1, d, 100, 10, 0, 0)>>) : d \in DateCells}

DateFamily ==
    [A  |-> DateTables("GSTR-2A"), B |-> DateTables("Books"),
     ac |-> {TRUE}, dtols |-> 0..MaxDateTol, atols |-> {DefaultAmountTolerance}]

\* amounts, in hundredths: three amounts, and each plus a tolerance and plus a
\* tolerance and one hundredth; the tolerances are 0.00 .. MaxAmountTol hundredths
\* and the default
AmountTolHundredths == (0..MaxAmountTol) \cup {100}

AmountTols == {float_of_decimal(t, 2) : t \in AmountTolHundredths}

AmountBases == {0, 3, 114}

Amounts == UNION {{b, b + t, b + t + 1} : b \in AmountBases, t \in AmountTolHundredths}

TaxSplits ==
    {<<a, 0, 0>> : a \in Amounts} \cup {<<10, 20, 0>>, <<0, 0, 30>>, <<1, 1, 1>>}

AmountRows ==
    {Fields(INV1, GSTIN1, DateCell(0), a, 0, 0, 0) : a \in Amounts}
    \cup {Fields(INV1, GSTIN1, DateCell(0), 100, x[1], x[2], x[3]) : x \in TaxSplits}

AmountTables(source) == {TemplateTable(source, <<f>>) : f \in AmountRows}

AmountFamily ==
    [A  |-> AmountTables("GSTR-2A"), B |-> AmountTables("Books"),
     ac |-> {TRUE}, dtols |-> {DefaultDateTolerance}, atols |-> AmountTols]

\* identifiers that are no identifiers, imported with cleansing on and with cleansing
\* off: kept as they came, "I" + "_" + "1_G" and "I_1" + "_" + "G" are one key with two
\* identifiers
MixedRowsA ==
    {Fields(StrCell(<<"I">>), StrCell(<<"1","_","G">>), d, a, c, 0, 0) :
        d \in {NaNCell, DateCell(0)}, a \in {100, 300}, c \in {0, 200}}

MixedRowsB ==
    {Fields(StrCell(<<"I","_","1">>), StrCell(<<"G">>), d, 100, 0, 0, 0) :
        d \in {NaNCell, DateCell(0), DateCell(MaxTick)}}
    \cup {Fields(StrCell(<<"I">>), StrCell(<<"1","_","G">>), d, 100, 0, 0, 0) :
            d \in {NaNCell, DateCell(0), DateCell(MaxTick)}}

MixedFamily ==
    [A  |-> {TemplateTable("GSTR-2A", <<f>>) : f \in MixedRowsA},
     B  |-> {TemplateTable("Books", <<f>>) : f \in MixedRowsB},
     ac |-> BOOLEAN, dtols |-> {DefaultDateTolerance}, atols |-> {DefaultAmountTolerance}]

ReconFamilies == {"keys", "dates", "amounts", "mixed"}

(***************************************************************************)
(* The summary of a report (get_summary_text, lines 1589-1635).            *)
(***************************************************************************)
\* the text of one entry of the issues list (lines 1379, 1395, 1421, 1438, 1469, 1475,
\* 1481, 1488, 1495)
issue_text(issue) ==
    CASE issue.tag = "Date diff" ->
            <<"D", "a", "t", "e", " ", "d", "i", "f", "f", ":", " ">> \o IntToDigits(issue.n) \o <<" ", "d", "a", "y", "s">>
      [] issue.tag \in {"Amount diff", "Tax diff"} ->
            (IF issue.tag = "Amount diff" THEN <<"A", "m", "o", "u", "n", "t", " ", "d", "i", "f", "f", ":", " ", "₹">>
             ELSE <<"T", "a", "x", " ", "d", "i", "f", "f", ":", " ", "₹">>)
            \o (IF issue.n.neg THEN <<"-">> ELSE <<>>)
            \o IntToDigits(issue.n.hundredths \div 100)
            \o <<".">> \o str_zfill(IntToDigits(issue.n.hundredths % 100), 2)
      [] issue.tag = "Duplicate in GSTR-2A" ->
            <<"D", "u", "p", "l", "i", "c", "a", "t", "e", " ", "i", "n", " ", "G", "S", "T", "R", "-", "2", "A">>
      [] issue.tag = "Duplicate in Books" ->
            <<"D", "u", "p", "l", "i", "c", "a", "t", "e", " ", "i", "n", " ", "B", "o", "o", "k", "s">>
      [] issue.tag = "Missing in Books" ->
            <<"M", "i", "s", "s", "i", "n", "g", " ", "i", "n", " ", "B", "o", "o", "k", "s">>
      [] issue.tag = "Missing in GSTR-2A" ->
            <<"M", "i", "s", "s", "i", "n", "g", " ", "i", "n", " ", "G", "S", "T", "R", "-", "2", "A">>
      [] issue.tag = "One invoice date missing" ->
            <<"O", "n", "e", " ", "i", "n", "v", "o", "i", "c", "e", " ", "d", "a", "t", "e", " ", "m", "i", "s", "s", "i", "n", "g">>
      [] issue.tag = "GSTIN mismatch" ->
            <<"G", "S", "T", "I", "N", " ", "m", "i", "s", "m", "a", "t", "c", "h">>

\* ", ".join(issues) (line 1502)
RECURSIVE join_issues(_)
join_issues(issues) ==
    IF issues = <<>> THEN <<>>
    ELSE IF Len(issues) = 1 THEN issue_text(issues[1])
    ELSE issue_text(issues[1]) \o <<",", " ">> \o join_issues(Tail(issues))

\* the "Issue Type" text of a report row
issue_type_text(row) == join_issues(row.Issue_Type)

\* Series.str.contains(pat, case=False) for a pattern without metacharacters
str_contains(s, pat) ==
    LET ls == str_lower(s)
        lp == str_lower(pat)
    IN  \E i \in 1..(Len(ls) - Len(lp) + 1) : SubSeq(ls, i, i + Len(lp) - 1) = lp

\* results[results['Issue Type'].str.contains(pat, case=False, na=False)].shape[0] for
\* a pattern pat1|pat2|...
count_contains(results, pats) ==
    Cardinality({i \in DOMAIN results :
                    LET text == issue_type_text(results[i])
                    IN  \E pat \in pats : str_contains(text, pat)})

\* the counts and the tolerance lines of get_summary_text (lines 1591-1601, 1624-1626)
get_summary_text(results, date_tol, amount_tol) ==
    [total_discrepancies |-> Len(results),
     missing_in_books    |-> count_contains(results, {<<"M", "i", "s", "s", "i", "n", "g", " ", "i", "n", " ", "B", "o", "o", "k", "s">>}),
     missing_in_gstr2a   |-> count_contains(results, {<<"M", "i", "s", "s", "i", "n", "g", " ", "i", "n", " ", "G", "S", "T", "R", "-", "2", "A">>}),
     date_mismatch       |-> count_contains(results, {<<"D", "a", "t", "e", " ", "d", "i", "f", "f">>}),
     amount_tax_mismatch |-> count_contains(results, {<<"A", "m", "o", "u", "n", "t", " ", "d", "i", "f", "f">>,
                                                       <<"T", "a", "x", " ", "d", "i", "f", "f">>}),
     gstin_mismatch      |-> count_contains(results, {<<"G", "S", "T", "I", "N", " ", "m", "i", "s", "m", "a", "t", "c", "h">>}),
     duplicates          |-> count_contains(results, {<<"D", "u", "p", "l", "i", "c", "a", "t", "e">>}),
     date_tolerance      |-> date_tol,
     amount_tolerance    |-> format_2f(amount_tol)]

(***************************************************************************)
(* The result views (update_results_ui, lines 1516-1567).                  *)
(***************************************************************************)
\* the keys of discrepancy_types (lines 441-449)
TreeKeys == {"all", "missing_in_books", "missing_in_gstr2a", "date_mismatch",
             "amount_mismatch", "gstin_mismatch", "duplicates"}

\* the views as create_reconciliation_tab leaves them (lines 451-477): without lines
NoLines == [key \in TreeKeys |-> <<>>]

\* sub in s, for two Python strings
py_in(sub, s) == \E i \in 1..(Len(s) - Len(sub) + 1) : SubSeq(s, i, i + Len(sub) - 1) = sub

\* lines 1553-1567: the view a row goes to besides 'all', by its lower-cased issue
\* type; "none" when no branch of the chain is taken
tree_of(issue_type_lower) ==
    IF py_in(<<"m","i","s","s","i","n","g"," ","i","n"," ","b","o","o","k","s">>, issue_type_lower)
    THEN "missing_in_books"
    ELSE IF py_in(<<"m","i","s","s","i","n","g"," ","i","n"," ","g","s","t","r","2","a">>, issue_type_lower)
    THEN "missing_in_gstr2a"
    ELSE IF /\ py_in(<<"d","a","t","e">>, issue_type_lower)
            /\ py_in(<<"m","i","s","m","a","t","c","h">>, issue_type_lower)
    THEN "date_mismatch"
    ELSE IF /\ \/ py_in(<<"a","m","o","u","n","t">>, issue_type_lower)
               \/ py_in(<<"t","a","x">>, issue_type_lower)
            /\ py_in(<<"m","i","s","m","a","t","c","h">>, issue_type_lower)
    THEN "amount_mismatch"
    ELSE IF py_in(<<"g","s","t","i","n"," ","m","i","s","m","a","t","c","h">>, issue_type_lower)
    THEN "gstin_mismatch"
    ELSE IF py_in(<<"d","u","p","l","i","c","a","t","e">>, issue_type_lower)
    THEN "duplicates"
    ELSE "none"

\* update_results_ui(results): every view is emptied (lines 1522-1524), then every row
\* is inserted in 'all' (line 1550) and in the view of its issue type.  A line of a view
\* is written as the position of its row in results.
update_results_ui(results) ==
    LET tree == [i \in DOMAIN results |-> tree_of(str_lower(issue_type_text(results[i])))]
    IN  [key \in TreeKeys |->
            IF key = "all" THEN [i \in DOMAIN results |-> i]
            ELSE SeqAt([i \in DOMAIN results |-> i], {i \in DOMAIN results : tree[i] = key})]

(***************************************************************************)
(* The state after __init__ (lines 23-26, 60-69).                          *)
(***************************************************************************)
NoCall == [op |-> "__init__", done |-> TRUE]

NoReport == [isnone |-> TRUE, rows |-> <<>>]

\* the summary box is empty until generate_insights fills it (lines 501-503)
NoSummary == [empty |-> TRUE]

Init ==
    /\ gstr2a_data = <<>>
    /\ books_data = <<>>
    /\ reconciliation_results = NoReport
    /\ summary_text = NoSummary
    /\ discrepancy_trees = NoLines
    /\ date_tolerance = DefaultDateTolerance
    /\ amount_tolerance = DefaultAmountTolerance
    /\ auto_clean_gstin = TRUE
    /\ call = NoCall

\* a call of clean_gstin(c) that has not returned yet
Pending(op, arg) == [op |-> op, done |-> FALSE, arg |-> arg]

InitClean ==
    /\ gstr2a_data = <<>>
    /\ books_data = <<>>
    /\ reconciliation_results = NoReport
    /\ summary_text = NoSummary
    /\ discrepancy_trees = NoLines
    /\ date_tolerance = DefaultDateTolerance
    /\ amount_tolerance = DefaultAmountTolerance
    /\ auto_clean_gstin = TRUE
    /\ \E c \in RawGstinPool : call = Pending("clean_gstin", c)

\* clean_gstin runs on its argument and returns
CleanGstin ==
    /\ call.op = "clean_gstin" /\ ~call.done
    /\ call' = [op |-> "clean_gstin", done |-> TRUE, arg |-> call.arg,
                ret |-> clean_gstin(call.arg),
                warned |-> clean_gstin_warns(call.arg)]
    /\ UNCHANGED <<discrepancy_trees, summary_text, gstr2a_data, books_data, reconciliation_results,
                   date_tolerance, amount_tolerance, auto_clean_gstin>>

NextClean == CleanGstin

SpecClean == InitClean /\ [][NextClean]_vars

\* the ledgers that importing one of the files into an empty ledger leaves
Imported(tables, source, ac) ==
    {clean_and_transform_data(t, source, {}, ac).rows : t \in tables}

SettingsOf(fam) ==
    CASE fam = "keys"    -> KeyFamily
      [] fam = "dates"   -> DateFamily
      [] fam = "amounts" -> AmountFamily
      [] fam = "mixed"   -> MixedFamily

\* the files of a family for one of the two ledgers
TablesOf(fam, source) ==
    IF source = "GSTR-2A" THEN SettingsOf(fam).A ELSE SettingsOf(fam).B

\* the ledgers that importing one file of the family leaves, under the setting ac
LedgersOf(fam, ac) ==
    [source \in {"GSTR-2A", "Books"} |-> Imported(TablesOf(fam, source), source, ac)]

InitRecon ==
    \E fam \in ReconFamilies :
      \E ac \in SettingsOf(fam).ac, dt \in SettingsOf(fam).dtols, at \in SettingsOf(fam).atols :
      \E ledgers \in {LedgersOf(fam, ac)} :
      \E la \in ledgers["GSTR-2A"], lb \in ledgers["Books"] :
        /\ gstr2a_data = la
        /\ books_data = lb
        /\ reconciliation_results = NoReport
        /\ summary_text = NoSummary
        /\ discrepancy_trees = NoLines
        /\ date_tolerance = dt
        /\ amount_tolerance = at
        /\ auto_clean_gstin = ac
        /\ call = NoCall

\* self.reconciliation_results = results (line 1341) with the rows of the report it
\* replaces put in front (mutant)
stored_report_appended(old, results) == [isnone |-> FALSE, rows |-> old.rows \o results]

\* self.reconciliation_results = results (line 1341)
stored_report(old, results) == [isnone |-> FALSE, rows |-> results]

\* lines 1309-1311 with the stored report dropped when a ledger is empty (mutant)
report_after_return_dropped(old) == NoReport

\* lines 1309-1311: run_reconciliation returns when a ledger is empty, before the
\* assignment of line 1341: the stored report is the one the run found
report_after_return(old) == old

\* run_reconciliation (lines 1306-1356): the report is stored (line 1341) and its
\* summary is written to the summary box (generate_insights, lines 1579-1583).  The
\* required columns (lines 1320-1337) are columns of every ledger: both are created
\* with them (lines 60-68) and every table appended carries them.  had_report tells
\* whether a report was stored when the run began.
RunReconciliation ==
    IF gstr2a_data = <<>> \/ books_data = <<>>
    THEN /\ reconciliation_results' = report_after_return(reconciliation_results)
         /\ call' = [op |-> "run_reconciliation", done |-> TRUE, ok |-> FALSE,
                     had_report |-> ~reconciliation_results.isnone]
         /\ UNCHANGED <<discrepancy_trees, summary_text, gstr2a_data, books_data,
                        date_tolerance, amount_tolerance, auto_clean_gstin>>
    ELSE \E results \in perform_reconciliation(gstr2a_data, books_data,
                                               date_tolerance, amount_tolerance) :
            /\ reconciliation_results' = stored_report(reconciliation_results, results)
            /\ discrepancy_trees' = update_results_ui(results)
            /\ summary_text' = [empty |-> FALSE,
                                text |-> get_summary_text(results, date_tolerance,
                                                          amount_tolerance)]
            /\ call' = [op |-> "run_reconciliation", done |-> TRUE, ok |-> TRUE,
                        had_report |-> ~reconciliation_results.isnone]
            /\ UNCHANGED <<gstr2a_data, books_data,
                           date_tolerance, amount_tolerance, auto_clean_gstin>>

NextRecon == RunReconciliation

SpecRecon == InitRecon /\ [][NextRecon]_vars

(***************************************************************************)
(* Properties of perform_reconciliation, stated on the report that         *)
(* run_reconciliation has just stored for the two ledgers.                 *)
(***************************************************************************)
Report == reconciliation_results.rows

JustReconciled == call.op = "run_reconciliation" /\ call.ok

\* the defined match keys of a ledger
KeysOf(rows) == {rows[i].match_key.text : i \in {j \in DOMAIN rows : rows[j].match_key.kind = "str"}}

\* the records of a ledger that carry the key k
RecordsOf(rows, k) == {i \in DOMAIN rows : rows[i].match_key = StrCell(k)}

\* the first record of a ledger that carries the key k
FirstOf(rows, k) == rows[CHOOSE i \in RecordsOf(rows, k) : \A j \in RecordsOf(rows, k) : i <= j]

\* the tags of a discrepancy, in the order of its issue classification
TagsOf(d) == [i \in DOMAIN d.Issue_Type |-> d.Issue_Type[i].tag]

\* the discrepancies of the report with the single tag, attributed to GSTR-2A and the key k
TaggedInGstr2a(tag, k) ==
    {i \in DOMAIN Report :
        /\ TagsOf(Report[i]) = <<tag>>
        /\ Report[i].Source = "GSTR-2A"
        /\ Report[i].Invoice_No \o <<"_">> \o Report[i].GSTR2A_GSTIN = k}

\* the discrepancies of the report with the single tag, attributed to Books and the key k
TaggedInBooks(tag, k) ==
    {i \in DOMAIN Report :
        /\ TagsOf(Report[i]) = <<tag>>
        /\ Report[i].Source = "Books"
        /\ Report[i].Invoice_No \o <<"_">> \o Report[i].Books_GSTIN = k}

ZeroDiffs(d) == d.Amount_Diff = FloatZero /\ d.Tax_Diff = FloatZero

\* the amount of a float in hundredths, as the program prints it
Hundredths(x) == format_2f(x).hundredths

\* C1: per ledger, a defined match key carried by n > 1 records of the ledger has
\* exactly n duplicate discrepancies attributed to that ledger and that key, each
\* with amount and tax difference 0; a key carried by one record has none.
C1_DuplicatesPerOccurrence ==
    JustReconciled =>
        /\ \A k \in KeysOf(gstr2a_data) :
              LET n == Cardinality(RecordsOf(gstr2a_data, k))
                  D == TaggedInGstr2a("Duplicate in GSTR-2A", k)
              IN  /\ n > 1 => Cardinality(D) = n /\ \A i \in D : ZeroDiffs(Report[i])
                  /\ n = 1 => D = {}
        /\ \A k \in KeysOf(books_data) :
              LET n == Cardinality(RecordsOf(books_data, k))
                  D == TaggedInBooks("Duplicate in Books", k)
              IN  /\ n > 1 => Cardinality(D) = n /\ \A i \in D : ZeroDiffs(Report[i])
                  /\ n = 1 => D = {}

\* a report for a GSTR-2A ledger with a key carried three times and another carried
\* once, and a Books ledger with a key carried twice
C1_Witness ==
    /\ JustReconciled
    /\ \E k \in KeysOf(gstr2a_data) : Cardinality(RecordsOf(gstr2a_data, k)) = 3
    /\ \E k \in KeysOf(books_data) : Cardinality(RecordsOf(books_data, k)) = 2
    /\ \E i \in DOMAIN Report : TagsOf(Report[i]) = <<"Duplicate in Books">>

\* the sum of the three tax components of a record, in hundredths
TaxHundredths(row) == Hundredths(row.cgst) + Hundredths(row.sgst) + Hundredths(row.igst)

MissingEntries ==
    {i \in DOMAIN Report :
        TagsOf(Report[i]) \in {<<"Missing in Books">>, <<"Missing in GSTR-2A">>}}

\* C2: a defined key of GSTR-2A that Books lacks has exactly one 'Missing in Books'
\* discrepancy, whose amount difference is the total_amount and whose tax difference
\* is cgst+sgst+igst of the (first) GSTR-2A record with the key, both positive; a key
\* of Books that GSTR-2A lacks has exactly one 'Missing in GSTR-2A' discrepancy with
\* those values of the Books record negated; a key of both ledgers has neither.
C2_PresenceMatching ==
    JustReconciled =>
        /\ \A k \in KeysOf(gstr2a_data) \ KeysOf(books_data) :
              LET M == TaggedInGstr2a("Missing in Books", k)
                  a == FirstOf(gstr2a_data, k)
              IN  /\ Cardinality(M) = 1
                  /\ \A i \in M :
                        /\ Report[i].Amount_Diff = a.total_amount
                        /\ Report[i].Tax_Diff = tax_of(a)
                        /\ ~Report[i].Amount_Diff.neg /\ ~Report[i].Tax_Diff.neg
                        /\ Hundredths(Report[i].Tax_Diff) = TaxHundredths(a)
        /\ \A k \in KeysOf(books_data) \ KeysOf(gstr2a_data) :
              LET M == TaggedInBooks("Missing in GSTR-2A", k)
                  b == FirstOf(books_data, k)
              IN  /\ Cardinality(M) = 1
                  /\ \A i \in M :
                        /\ Report[i].Amount_Diff = float_neg(b.total_amount)
                        /\ Report[i].Tax_Diff = float_neg(tax_of(b))
                        /\ Hundredths(Report[i].Tax_Diff) = TaxHundredths(b)
        /\ \A k \in KeysOf(gstr2a_data) \cap KeysOf(books_data) :
              /\ TaggedInGstr2a("Missing in Books", k) = {}
              /\ TaggedInBooks("Missing in GSTR-2A", k) = {}
        /\ Cardinality(MissingEntries) =
              Cardinality(KeysOf(gstr2a_data) \ KeysOf(books_data))
              + Cardinality(KeysOf(books_data) \ KeysOf(gstr2a_data))

\* a report for ledgers with a key only in GSTR-2A (carried by two records there),
\* a key only in Books and a key in both
C2_Witness ==
    /\ JustReconciled
    /\ \E k \in KeysOf(gstr2a_data) \ KeysOf(books_data) :
          /\ Cardinality(RecordsOf(gstr2a_data, k)) = 2
          /\ TaggedInGstr2a("Missing in Books", k) # {}
    /\ \E k \in KeysOf(books_data) \ KeysOf(gstr2a_data) :
          \E i \in TaggedInBooks("Missing in GSTR-2A", k) : Report[i].Tax_Diff.neg
    /\ KeysOf(gstr2a_data) \cap KeysOf(books_data) # {}

\* the values a 'Both' discrepancy carries when it is made of the records a and b
BothCarries(d, a, b) ==
    /\ d.Invoice_No = a.invoice_no
    /\ d.GSTR2A_Date = a.invoice_date /\ d.Books_Date = b.invoice_date
    /\ d.GSTR2A_GSTIN = str_upper(str_strip(a.supplier_gstin))
    /\ d.Books_GSTIN = str_upper(str_strip(b.supplier_gstin))
    /\ d.Amount_Diff = float_sub(a.total_amount, b.total_amount)
    /\ d.Tax_Diff = float_sub(tax_of(a), tax_of(b))

\* the values a missing discrepancy carries when it is made of the record r
MissingCarries(d, r, negated) ==
    /\ d.Invoice_No = r.invoice_no
    /\ IF negated
       THEN /\ d.Books_Date = r.invoice_date /\ d.Books_GSTIN = r.supplier_gstin
            /\ d.Amount_Diff = float_neg(r.total_amount)
            /\ d.Tax_Diff = float_neg(tax_of(r))
       ELSE /\ d.GSTR2A_Date = r.invoice_date /\ d.GSTR2A_GSTIN = r.supplier_gstin
            /\ d.Amount_Diff = r.total_amount
            /\ d.Tax_Diff = tax_of(r)

\* C17: every 'Both' discrepancy carries the dates, identifiers, amount difference and
\* tax difference of the first GSTR-2A record and the first Books record of one common
\* key, and every missing discrepancy the values of the first record of a key of one
\* ledger only, in ledger order; the values of a later record with the same key appear
\* in no such discrepancy.
C17_FirstRecordOfKeyUsed ==
    JustReconciled =>
        \A i \in DOMAIN Report :
            /\ Report[i].Source = "Both" =>
                  \E k \in KeysOf(gstr2a_data) \cap KeysOf(books_data) :
                      BothCarries(Report[i], FirstOf(gstr2a_data, k), FirstOf(books_data, k))
            /\ TagsOf(Report[i]) = <<"Missing in Books">> =>
                  \E k \in KeysOf(gstr2a_data) \ KeysOf(books_data) :
                      MissingCarries(Report[i], FirstOf(gstr2a_data, k), FALSE)
            /\ TagsOf(Report[i]) = <<"Missing in GSTR-2A">> =>
                  \E k \in KeysOf(books_data) \ KeysOf(gstr2a_data) :
                      MissingCarries(Report[i], FirstOf(books_data, k), TRUE)

\* a report with a 'Both' discrepancy for a key that GSTR-2A carries twice with
\* different total amounts, and a missing discrepancy for a key of Books only
C17_Witness ==
    /\ JustReconciled
    /\ \E k \in KeysOf(gstr2a_data) \cap KeysOf(books_data) :
          /\ \E i, j \in RecordsOf(gstr2a_data, k) :
                gstr2a_data[i].total_amount # gstr2a_data[j].total_amount
          /\ \E i \in DOMAIN Report :
                /\ Report[i].Source = "Both"
                /\ BothCarries(Report[i], FirstOf(gstr2a_data, k), FirstOf(books_data, k))
    /\ \E k \in KeysOf(books_data) \ KeysOf(gstr2a_data) :
          \E i \in TaggedInBooks("Missing in GSTR-2A", k) :
              MissingCarries(Report[i], FirstOf(books_data, k), TRUE)

\* a record with a defined match key
HasKey(r) == r.match_key.kind = "str"

\* the ledger without its records of undefined match key
DefinedOnly(rows) == SelectSeq(rows, HasKey)

\* C18: the records with an undefined match key stay in the ledgers and contribute
\* nothing: the report just stored is a report of the two ledgers with those records
\* removed, and perform_reconciliation has the same outputs with and without them.
C18_UndefinedKeysContributeNothing ==
    JustReconciled =>
        /\ Report \in perform_reconciliation(DefinedOnly(gstr2a_data), DefinedOnly(books_data),
                                             date_tolerance, amount_tolerance)
        /\ perform_reconciliation(gstr2a_data, books_data, date_tolerance, amount_tolerance)
             = perform_reconciliation(DefinedOnly(gstr2a_data), DefinedOnly(books_data),
                                      date_tolerance, amount_tolerance)

\* a report for a GSTR-2A ledger that holds a record with an undefined key next to a
\* record with a defined one, with a discrepancy for the latter
C18_Witness ==
    /\ JustReconciled
    /\ \E i \in DOMAIN gstr2a_data : ~HasKey(gstr2a_data[i])
    /\ \E i \in DOMAIN gstr2a_data : HasKey(gstr2a_data[i])
    /\ Report # <<>>
    /\ DefinedOnly(gstr2a_data) # gstr2a_data

\* the calendar day of a Timestamp
CalendarDay(ts) == ts.t \div TicksPerDay

\* the difference of the invoice dates of two records, in calendar days
DayDifference(a, b) == Abs(CalendarDay(a.invoice_date) - CalendarDay(b.invoice_date))

BothDated(a, b) == ~a.invoice_date.nat /\ ~b.invoice_date.nat

\* the four checks of the field comparison, on the dates and the decimal amounts of
\* the two records
DateCheckFails(a, b) ==
    IF BothDated(a, b) THEN DayDifference(a, b) > date_tolerance
    ELSE a.invoice_date.nat # b.invoice_date.nat

IdentifierCheckFails(a, b) ==
    str_upper(str_strip(a.supplier_gstin)) # str_upper(str_strip(b.supplier_gstin))

AmountCheckFails(a, b) ==
    Abs(Hundredths(a.total_amount) - Hundredths(b.total_amount)) > Hundredths(amount_tolerance)

TaxCheckFails(a, b) ==
    Abs(TaxHundredths(a) - TaxHundredths(b)) > Hundredths(amount_tolerance)

CommonKeys == KeysOf(gstr2a_data) \cap KeysOf(books_data)

\* the discrepancies of the report attributed to both ledgers for the common key k
MismatchesOf(k) ==
    {i \in DOMAIN Report :
        /\ Report[i].Source = "Both"
        /\ Report[i].Invoice_No = FirstOf(gstr2a_data, k).invoice_no
        /\ Report[i].GSTR2A_GSTIN = str_upper(str_strip(FirstOf(gstr2a_data, k).supplier_gstin))
        /\ Report[i].Books_GSTIN = str_upper(str_strip(FirstOf(books_data, k).supplier_gstin))}

Tagged(i, tag) == \E j \in DOMAIN Report[i].Issue_Type : Report[i].Issue_Type[j].tag = tag

\* C3: a common key has a discrepancy if and only if one of the four checks fails
\* on its two records; the discrepancy has source 'Both' and is tagged with the
\* failing checks and with no other.
C3_FieldComparison ==
    JustReconciled =>
        \A k \in CommonKeys :
            LET a == FirstOf(gstr2a_data, k)
                b == FirstOf(books_data, k)
                M == MismatchesOf(k)
            IN  /\ Cardinality(M) <= 1
                /\ M # {} <=> \/ DateCheckFails(a, b) \/ IdentifierCheckFails(a, b)
                              \/ AmountCheckFails(a, b) \/ TaxCheckFails(a, b)
                /\ \A i \in M :
                     /\ (Tagged(i, "Date diff") \/ Tagged(i, "One invoice date missing"))
                            <=> DateCheckFails(a, b)
                     /\ Tagged(i, "GSTIN mismatch") <=> IdentifierCheckFails(a, b)
                     /\ Tagged(i, "Amount diff") <=> AmountCheckFails(a, b)
                     /\ Tagged(i, "Tax diff") <=> TaxCheckFails(a, b)

\* C4: for a common key whose two invoice dates are present, the date check flags
\* if and only if the dates are more than date_tolerance days apart, whichever of
\* the two is the later; when nothing but the dates differs beyond tolerance, the
\* key has one discrepancy, tagged with the date issue only, with amount and tax
\* difference zero.
C4_DateToleranceBoundary ==
    JustReconciled =>
        \A k \in CommonKeys :
            LET a == FirstOf(gstr2a_data, k)
                b == FirstOf(books_data, k)
                M == MismatchesOf(k)
            IN  BothDated(a, b) =>
                  /\ (\E i \in M : Tagged(i, "Date diff")) <=> DayDifference(a, b) > date_tolerance
                  /\ ( /\ DayDifference(a, b) > date_tolerance
                       /\ ~IdentifierCheckFails(a, b)
                       /\ a.total_amount = b.total_amount
                       /\ TaxHundredths(a) = TaxHundredths(b) )
                     => /\ Cardinality(M) = 1
                        /\ \A i \in M : TagsOf(Report[i]) = <<"Date diff">> /\ ZeroDiffs(Report[i])

\* the signed amount d, to the hundredth
SignedHundredths(d) == IF d.neg THEN 0 - Hundredths(d) ELSE Hundredths(d)

\* C5: for a common key, the amount check flags if and only if the totals differ by
\* more than amount_tolerance, and the tax check if and only if the tax sums differ
\* by more than amount_tolerance; a difference equal to the tolerance does not flag;
\* the differences reported are those of GSTR-2A minus Books.
C5_CurrencyToleranceBoundary ==
    JustReconciled =>
        \A k \in CommonKeys :
            LET a == FirstOf(gstr2a_data, k)
                b == FirstOf(books_data, k)
                M == MismatchesOf(k)
            IN  /\ (\E i \in M : Tagged(i, "Amount diff")) <=> AmountCheckFails(a, b)
                /\ (\E i \in M : Tagged(i, "Tax diff")) <=> TaxCheckFails(a, b)
                /\ \A i \in M :
                     /\ SignedHundredths(Report[i].Amount_Diff)
                            = Hundredths(a.total_amount) - Hundredths(b.total_amount)
                     /\ SignedHundredths(Report[i].Tax_Diff) = TaxHundredths(a) - TaxHundredths(b)

\* the missing discrepancies of a report
MissingIn(report) ==
    {i \in DOMAIN report :
        TagsOf(report[i]) \in {<<"Missing in Books">>, <<"Missing in GSTR-2A">>}}

\* a missing discrepancy as the other ledger sees it: the other tag and source, the
\* date and the identifier on the other side, the differences negated
SeenFromOtherLedger(d) ==
    IF d.Source = "GSTR-2A"
    THEN [Invoice_No |-> d.Invoice_No, Source |-> "Books",
          Issue_Type |-> <<Issue("Missing in GSTR-2A", 0)>>,
          GSTR2A_Date |-> d.Books_Date, Books_Date |-> d.GSTR2A_Date,
          GSTR2A_GSTIN |-> d.Books_GSTIN, Books_GSTIN |-> d.GSTR2A_GSTIN,
          Amount_Diff |-> float_neg(d.Amount_Diff), Tax_Diff |-> float_neg(d.Tax_Diff),
          Details |-> Detail("Invoice found in Books but not in GSTR-2A.", <<>>)]
    ELSE [Invoice_No |-> d.Invoice_No, Source |-> "GSTR-2A",
          Issue_Type |-> <<Issue("Missing in Books", 0)>>,
          GSTR2A_Date |-> d.Books_Date, Books_Date |-> d.GSTR2A_Date,
          GSTR2A_GSTIN |-> d.Books_GSTIN, Books_GSTIN |-> d.GSTR2A_GSTIN,
          Amount_Diff |-> float_neg(d.Amount_Diff), Tax_Diff |-> float_neg(d.Tax_Diff),
          Details |-> Detail("Invoice found in GSTR-2A but not in Books.", <<>>)]

\* C6: reconciling the two ledgers with their contents swapped, under the same
\* settings, reports the missing discrepancies of this report with the tags swapped
\* and the differences negated, and no other missing discrepancy.
C6_PresenceSymmetric ==
    JustReconciled =>
        \A swapped \in perform_reconciliation(books_data, gstr2a_data,
                                              date_tolerance, amount_tolerance) :
            /\ {swapped[i] : i \in MissingIn(swapped)}
                  = {SeenFromOtherLedger(Report[i]) : i \in MissingIn(Report)}
            /\ Cardinality(MissingIn(swapped)) = Cardinality(MissingIn(Report))

\* a report with a 'Missing in Books' discrepancy of a nonzero amount and tax and a
\* 'Missing in GSTR-2A' discrepancy
C6_Witness ==
    /\ JustReconciled
    /\ \E i \in MissingIn(Report) :
          /\ TagsOf(Report[i]) = <<"Missing in Books">>
          /\ Report[i].Amount_Diff.mag # BigZero /\ Report[i].Tax_Diff.mag # BigZero
    /\ \E i \in MissingIn(Report) :
          /\ TagsOf(Report[i]) = <<"Missing in GSTR-2A">>
          /\ Report[i].Amount_Diff.neg

\* the summary category of the first tag of a report row
primary_category(row) ==
    LET tag == row.Issue_Type[1].tag
    IN  CASE tag = "Missing in Books" -> "missing_in_books"
          [] tag = "Missing in GSTR-2A" -> "missing_in_gstr2a"
          [] tag \in {"Date diff", "One invoice date missing"} -> "date_mismatch"
          [] tag \in {"Amount diff", "Tax diff"} -> "amount_tax_mismatch"
          [] tag = "GSTIN mismatch" -> "gstin_mismatch"
          [] tag \in {"Duplicate in GSTR-2A", "Duplicate in Books"} -> "duplicates"

rows_of_category(rows, cat) ==
    Cardinality({i \in DOMAIN rows : primary_category(rows[i]) = cat})

\* C13: the summary of the report a run has just stored counts every discrepancy in
\* exactly one category, that of its first tag: each category count is the number of
\* rows whose first tag belongs to it, the counts add up to the total, and the total is
\* the number of rows of the report.
C13_SummaryCountsPartition ==
    (call.op = "run_reconciliation" /\ call.done /\ call.ok) =>
        LET s    == summary_text.text
            rows == reconciliation_results.rows
        IN  /\ s.total_discrepancies = Len(rows)
            /\ s.missing_in_books = rows_of_category(rows, "missing_in_books")
            /\ s.missing_in_gstr2a = rows_of_category(rows, "missing_in_gstr2a")
            /\ s.date_mismatch = rows_of_category(rows, "date_mismatch")
            /\ s.amount_tax_mismatch = rows_of_category(rows, "amount_tax_mismatch")
            /\ s.gstin_mismatch = rows_of_category(rows, "gstin_mismatch")
            /\ s.duplicates = rows_of_category(rows, "duplicates")
            /\ s.missing_in_books + s.missing_in_gstr2a + s.date_mismatch
                 + s.amount_tax_mismatch + s.gstin_mismatch + s.duplicates
               = s.total_discrepancies

(***************************************************************************)
(* Properties of clean_gstin, stated on a call that has returned.          *)
(***************************************************************************)
CleanGstinReturned == call.op = "clean_gstin" /\ call.done

\* the raw identifier as text, trimmed, upper-cased, without what is not A-Z or 0-9
TrimmedUpperAlnum(c) == SelectSeq(str_upper(str_strip(astype_str(c))), IsUpperAlnum)

\* u cut to its first 15 characters, or filled with 'X' up to 15
FifteenOf(u) ==
    IF Len(u) > GstinLen THEN SubSeq(u, 1, GstinLen)
    ELSE u \o [i \in 1..(GstinLen - Len(u)) |-> "X"]

NullOrBlank(c) == pd_isna(c) \/ str_strip(astype_str(c)) = <<>>

\* the text nan or none, in any case, with any surrounding whitespace
NanOrNoneText(c) ==
    c.kind = "str" /\ str_lower(str_strip(c.text)) \in {<<"n","a","n">>, <<"n","o","n","e">>}

OnlyUpperAlnum(g) == \A i \in DOMAIN g : IsUpperAlnum(g[i])

\* C9 as stated: clean_gstin returns '' for null or blank input and, for every other
\* input, the input trimmed, upper-cased, stripped of what is not A-Z or 0-9 and cut
\* or 'X'-padded to 15 characters; the result holds only upper-case letters and
\* digits and clean_gstin leaves it unchanged.
C9_CleanGstinContract ==
    CleanGstinReturned =>
        /\ call.ret = IF NullOrBlank(call.arg) THEN <<>> ELSE FifteenOf(TrimmedUpperAlnum(call.arg))
        /\ OnlyUpperAlnum(call.ret)
        /\ clean_gstin(StrCell(call.ret)) = call.ret

\* C9 amended: clean_gstin returns '' for null or blank input and for the text nan or
\* none (in any case, trimmed); for every other input it returns the input trimmed,
\* upper-cased, stripped of what is not A-Z or 0-9 and cut or 'X'-padded to 15
\* characters; the result holds only upper-case letters and digits and clean_gstin
\* leaves it unchanged.
C9_CleanGstinContractAmended ==
    CleanGstinReturned =>
        /\ call.ret = IF NullOrBlank(call.arg) \/ NanOrNoneText(call.arg) THEN <<>>
                      ELSE FifteenOf(TrimmedUpperAlnum(call.arg))
        /\ OnlyUpperAlnum(call.ret)
        /\ clean_gstin(StrCell(call.ret)) = call.ret

\* clean_gstin has returned 15 characters that are not the first 15 of the text it was
\* given: the text held more than 15 letters and digits, some of them to upper-case
C9_Witness ==
    /\ CleanGstinReturned
    /\ call.arg.kind = "str"
    /\ Len(TrimmedUpperAlnum(call.arg)) > GstinLen
    /\ call.ret # SubSeq(call.arg.text, 1, GstinLen)
    /\ Len(call.ret) = GstinLen

DigitChars == {"0", "1", "2", "3", "4", "5", "6", "7", "8", "9"}

LetterChars == Range(UpperSeq)

\* 2 digits, 5 letters, 4 digits, 1 letter, one character of Thirteenth, 'Z', 1
\* letter or digit
Structured(g, Thirteenth) ==
    /\ Len(g) = 15
    /\ \A i \in {1, 2, 8, 9, 10, 11} : g[i] \in DigitChars
    /\ \A i \in {3, 4, 5, 6, 7, 12} : g[i] \in LetterChars
    /\ g[13] \in Thirteenth
    /\ g[14] = "Z"
    /\ g[15] \in DigitChars \cup LetterChars

\* C19 as stated: for input that is not null or blank clean_gstin returns the cleansed
\* 15-character result, and it logs the invalid warning exactly when the result does
\* not match 2 digits, 5 letters, 4 digits, 1 letter, 1 alphanumeric, 'Z', 1
\* alphanumeric.
C19_ValidityWarning ==
    (CleanGstinReturned /\ ~NullOrBlank(call.arg)) =>
        /\ call.ret = FifteenOf(TrimmedUpperAlnum(call.arg))
        /\ call.warned <=> ~Structured(call.ret, DigitChars \cup LetterChars)

\* C19 amended: for input that is not null, blank or the text nan or none clean_gstin
\* returns the cleansed 15-character result, and it logs the invalid warning exactly
\* when the result does not match 2 digits, 5 letters, 4 digits, 1 letter, 1 character
\* that is a letter or a digit from 1 to 9, 'Z', 1 alphanumeric; for null, blank, nan
\* and none it returns '' and logs nothing.
C19_ValidityWarningAmended ==
    CleanGstinReturned =>
        IF NullOrBlank(call.arg) \/ NanOrNoneText(call.arg)
        THEN call.ret = <<>> /\ ~call.warned
        ELSE /\ call.ret = FifteenOf(TrimmedUpperAlnum(call.arg))
             /\ call.warned <=> ~Structured(call.ret, (DigitChars \ {"0"}) \cup LetterChars)

\* clean_gstin has returned an identifier of the stated shape whose thirteenth
\* character is 0, and has logged the warning for it
C19_Witness ==
    /\ CleanGstinReturned
    /\ Structured(call.ret, {"0"})
    /\ call.warned

(***************************************************************************)
(* clean_and_transform_data on its own: the table, the source and the      *)
(* setting are drawn at the start, the call then runs.                     *)
(***************************************************************************)
MaxTableRows == 2

\* column names of input files
BILLNO == <<"B","i","l","l"," ","N","o">>

GSTINCOL == <<"G","S","T","I","N">>

INVOICENO == <<"I","n","v","o","i","c","e"," ","N","o">>

SUPPLIERGSTIN == <<"S","u","p","p","l","i","e","r"," ","G","S","T","I","N">>

REMARKS == <<"R","e","m","a","r","k","s">>

INVOICE_NO == <<" ","i","n","v","o","i","c","e","_","n","o"," ">>

PARTYGSTIN == <<"P","a","r","t","y","-","G","S","T","I","N">>

AMOUNT == <<"A","m","o","u","n","t">>

\* the (invoice number, identifier) cells of the rows of the input tables
KeyCells ==
    {<<INV1, GSTIN1>>,
     <<StrCell(<<" ">>), GSTIN1>>,
     <<NaNCell, GSTIN1>>,
     <<INV1, NaNCell>>,
     <<INV1, StrCell(<<"g","-","1">>)>>,
     <<StrCell(<<"n","a","n">>), GSTIN1>>,
     <<INV1, StrCell(<<" ">>)>>,
     <<StrCell(<<" ","I","1">>), StrCell(<<"N","o","n","e">>)>>}

\* the column layouts of the input tables: each maps a pair of key cells to a row
Layouts == {"template", "missing", "extra", "synonyms", "spelling", "small"}

LayoutColumns(layout, source) ==
    CASE layout = "template" -> TemplateColumns(source)
      [] layout = "missing"  -> <<BILLNO, GSTINCOL>>
      [] layout = "extra"    -> <<INVOICENO, SUPPLIERGSTIN, REMARKS>>
      [] layout = "synonyms" -> <<INVOICENO, BILLNO, GSTINCOL>>
      [] layout = "spelling" -> <<INVOICE_NO, PARTYGSTIN, AMOUNT>>
      [] layout = "small"    -> <<INVOICENO, GSTINCOL, AMOUNT>>

LayoutRow(layout, source, kc) ==
    CASE layout = "template" ->
            TemplateRow(source, [inv |-> kc[1], gstin |-> kc[2], date |-> DateCell(0),
                                 total |-> RupeeText(100), cgst |-> RupeeText(10),
                                 sgst |-> NaNCell, igst |-> StrCell(<<"-","5">>)])
      [] layout = "missing"  -> <<kc[1], kc[2]>>
      [] layout = "extra"    -> <<kc[1], kc[2], StrCell(<<"a">>)>>
      [] layout = "synonyms" -> <<kc[1], INV2, kc[2]>>
      [] layout = "spelling" -> <<kc[1], kc[2], RupeeText(214)>>
      [] layout = "small"    -> <<kc[1], kc[2], StrCell(<<"0",".","0","0","0","0","8","5">>)>>

\* the keys of self.gstr2a_entries and self.books_entries (lines 278-299, 353-374):
\* the columns of the one-row table of a manual entry
FormKeys(source) ==
    <<<<"i","n","v","o","i","c","e","_","n","o">>,
      <<"i","n","v","o","i","c","e","_","d","a","t","e">>,
      <<"s","u","p","p","l","i","e","r","_","g","s","t","i","n">>,
      <<"t","a","x","a","b","l","e","_","v","a","l","u","e">>,
      <<"c","g","s","t">>,
      <<"s","g","s","t">>,
      <<"i","g","s","t">>,
      <<"t","o","t","a","l","_","a","m","o","u","n","t">>,
      <<"p","l","a","c","e","_","o","f","_","s","u","p","p","l","y">>>>
    \o (IF source = "Books" THEN <<<<"b","o","o","k","_","e","n","t","r","y","_","d","a","t","e">>>> ELSE <<>>)

MATCHKEY == <<"m","a","t","c","h","_","k","e","y">>

\* the cell of a DataFrame that clean_and_transform_data returned, under column f
cell_of(row, f) ==
    CASE f \in {"invoice_no", "supplier_gstin", "place_of_supply"} -> StrCell(row[f])
      [] f \in {"invoice_date", "book_entry_date"} ->
            IF row[f].nat THEN NaNCell ELSE DateCell(row[f].t)
      [] f = "match_key" -> row[f]
      [] OTHER -> FloatCell(row[f])

\* the DataFrame that clean_and_transform_data returned (line 905), as an input table
as_table(ret, source) ==
    [cols |-> FormKeys(source) \o <<MATCHKEY>>,
     rows |-> [i \in DOMAIN ret.rows |->
                 [c \in DOMAIN final_cols_order(source) |->
                     cell_of(ret.rows[i], final_cols_order(source)[c])]]]

\* the column-name overrides handed to the call: none, or 'Remarks' for invoice_no
NormMappings == {{}, {<<"invoice_no", REMARKS>>}}

RawTables(source) ==
    {[cols |-> LayoutColumns(layout, source),
      rows |-> [i \in DOMAIN kcs |-> LayoutRow(layout, source, kcs[i])]] :
        layout \in Layouts, kcs \in SeqsUpTo(KeyCells, MaxTableRows) \ {<<>>}}

InitNorm ==
    /\ gstr2a_data = <<>>
    /\ books_data = <<>>
    /\ reconciliation_results = NoReport
    /\ summary_text = NoSummary
    /\ discrepancy_trees = NoLines
    /\ date_tolerance = DefaultDateTolerance
    /\ amount_tolerance = DefaultAmountTolerance
    /\ auto_clean_gstin \in BOOLEAN
    /\ \E source \in {"GSTR-2A", "Books"} :
         \E df \in RawTables(source), custom_mapping \in NormMappings :
            call = Pending("clean_and_transform_data",
                           [df |-> df, source |-> source, custom_mapping |-> custom_mapping,
                            produced |-> FALSE])

\* clean_and_transform_data runs on its arguments and returns or raises
CleanAndTransformData ==
    /\ call.op = "clean_and_transform_data" /\ ~call.done
    /\ call' = [op |-> "clean_and_transform_data", done |-> TRUE, arg |-> call.arg,
                ret |-> clean_and_transform_data(call.arg.df, call.arg.source,
                                                 call.arg.custom_mapping, auto_clean_gstin)]
    /\ UNCHANGED <<discrepancy_trees, summary_text, gstr2a_data, books_data, reconciliation_results,
                   date_tolerance, amount_tolerance, auto_clean_gstin>>

\* the table that clean_and_transform_data returned is handed to it again
CleanAndTransformAgain ==
    /\ call.op = "clean_and_transform_data" /\ call.done /\ call.ret.ok
    /\ ~call.arg.produced
    /\ call' = Pending("clean_and_transform_data",
                       [df |-> as_table(call.ret, call.arg.source),
                        source |-> call.arg.source, custom_mapping |-> {},
                        produced |-> TRUE])
    /\ UNCHANGED <<discrepancy_trees, summary_text, gstr2a_data, books_data, reconciliation_results,
                   date_tolerance, amount_tolerance, auto_clean_gstin>>

NextNorm == CleanAndTransformData \/ CleanAndTransformAgain

SpecNorm == InitNorm /\ [][NextNorm]_vars

Normalized == call.op = "clean_and_transform_data" /\ call.done

\* a component of the key is, once trimmed, empty or a textual null placeholder
TrimmedIsNull(text) == str_strip(text) \in {<<>>, <<"N","o","n","e">>, <<"n","a","n">>}

\* C7: the match key of a record is defined if and only if its invoice number and its
\* identifier are both, once trimmed, non-empty and no textual null placeholder; a
\* defined key is invoice_no + '_' + supplier_gstin; a record imported with a
\* whitespace-only invoice number has no key.
C7_KeyBuilder ==
    (Normalized /\ call.ret.ok) =>
        \A i \in DOMAIN call.ret.rows :
            LET r == call.ret.rows[i]
            IN  /\ r.match_key.kind = "str"
                      <=> (~TrimmedIsNull(r.invoice_no) /\ ~TrimmedIsNull(r.supplier_gstin))
                /\ r.match_key.kind = "str"
                      => r.match_key.text = r.invoice_no \o <<"_">> \o r.supplier_gstin

\* the canonical columns, in their order
CanonicalColumns(source) ==
    <<"invoice_no", "invoice_date", "supplier_gstin", "taxable_value", "cgst", "sgst",
      "igst", "total_amount", "place_of_supply">>
    \o (IF source = "Books" THEN <<"book_entry_date", "match_key">> ELSE <<"match_key">>)

\* C10: for every non-empty raw table and either source, clean_and_transform_data
\* returns a table with the canonical columns in their order and one row per input
\* row, whatever the columns of the input: some missing, some unrelated, several that
\* are synonyms of one canonical field.
C10_FixedSchema ==
    (Normalized /\ call.arg.custom_mapping = {} /\ ~df_empty(call.arg.df)) =>
        /\ call.ret.ok
        /\ call.ret.cols = CanonicalColumns(call.arg.source)
        /\ Len(call.ret.rows) = Len(call.arg.df.rows)
        /\ \A i \in DOMAIN call.ret.rows :
              DOMAIN call.ret.rows[i] = Range(CanonicalColumns(call.arg.source))

\* C12: clean_and_transform_data applied, for the same source and settings, to a table
\* it has produced returns that table again: same columns, same rows in the same
\* order, same field values, same match keys.
C12_NormalizationIdempotent ==
    (Normalized /\ call.arg.produced) =>
        /\ call.ret.ok
        /\ as_table(call.ret, call.arg.source) = call.arg.df

\* the columns of df that an override names, by the normalization of line 795
OverrideColumns(df, user_col) ==
    {c \in DOMAIN df.cols : normalize_column(df.cols[c]) = normalize_column(user_col)}

\* C11: when the override map names, for a canonical field, a column of the input (by
\* its normalized name), clean_and_transform_data succeeds and that field of every
\* output row carries the values of that column, ahead of the synonym table.
C11_OverrideApplied ==
    (/\ Normalized
     /\ call.arg.custom_mapping # {}
     /\ \A m \in call.arg.custom_mapping : OverrideColumns(call.arg.df, m[2]) # {})
    => /\ call.ret.ok
       /\ Len(call.ret.rows) = Len(call.arg.df.rows)
       /\ \A m \in call.arg.custom_mapping :
             \A c \in OverrideColumns(call.arg.df, m[2]), i \in DOMAIN call.ret.rows :
                m[1] = "invoice_no"
                   => call.ret.rows[i].invoice_no = astype_str(call.arg.df.rows[i][c])

(***************************************************************************)
(* The ledgers and the settings: file imports, manual entries, deletions,  *)
(* clearing and save_settings, from the state after __init__.              *)
(***************************************************************************)
\* the records the two ledgers hold together
MaxRows == 2

\* the one-row table of lines 959-968: every field trimmed, a placeholder made ''
ManualTable(source, f) ==
    [cols |-> FormKeys(source),
     rows |-> <<<<f.inv, f.date, f.gstin, StrCell(<<>>), f.cgst, f.sgst, f.igst, f.total,
                  StrCell(<<>>)>>
                \o (IF source = "Books" THEN <<f.date>> ELSE <<>>)>>]

\* lines 974, 1030: df.iloc[0].isnull().all(): a str and a float are never null
iloc0_isnull_all(row) ==
    \A f \in DOMAIN row :
        CASE f \in {"invoice_date", "book_entry_date"} -> row[f].nat
          [] f = "match_key" -> row[f].kind = "nan"
          [] OTHER -> FALSE

\* what the user selects as a file: nothing, a file of another format, or a table
ShortGstin == StrCell(<<"g","-","1">>)

Files(source) ==
    {[kind |-> "missing"], [kind |-> "unsupported"],
     [kind |-> "table", df |-> TemplateTable(source, <<>>)],
     [kind |-> "table",
      df |-> TemplateTable(source, <<Fields(INV1, ShortGstin, DateCell(0), 100, 10, 0, 0)>>)],
     [kind |-> "table",
      df |-> [cols |-> <<INVOICENO, BILLNO, GSTINCOL>>, rows |-> <<<<INV1, INV2, GSTIN1>>>>]]}

\* the column-name overrides typed in the import tab (lines 696, 739)
CustomMappings == {{}, {<<"invoice_no", BILLNO>>}}

\* what the user types in the form of a manual entry: the CGST is typed as -5
ManualEntries ==
    {[Fields(INV2, GSTIN1, DateCell(0), 214, 0, 0, 30) EXCEPT !.cgst = StrCell(<<"-","5">>)]}

\* the form with every field left blank or at its placeholder (lines 961-966)
BlankForm ==
    [inv |-> StrCell(<<>>), gstin |-> StrCell(<<>>), date |-> StrCell(<<>>),
     total |-> StrCell(<<>>), cgst |-> StrCell(<<>>), sgst |-> StrCell(<<>>),
     igst |-> StrCell(<<>>)]

\* the forms of the manual entry tabs on their own: blank, with an invoice number
\* only, and filled in
ManualForms ==
    ManualEntries \cup {BlankForm, [BlankForm EXCEPT !.inv = INV1]}

\* lines 682-699, 725-742: the table read from the file, normalized; ok is FALSE when
\* no file was read or clean_and_transform_data raised
load_file(source, file, custom_mapping, auto_clean) ==
    IF file.kind # "table" THEN [ok |-> FALSE, error |-> file.kind]
    ELSE clean_and_transform_data(file.df, source, custom_mapping, auto_clean)

\* every import the user can ask for, with the table it is normalized to
file_imports(source) ==
    {[auto_clean |-> ac, df |-> load_file(source, file, custom_mapping, ac)] :
        file \in Files(source), custom_mapping \in CustomMappings, ac \in BOOLEAN}

Gstr2aImports == file_imports("GSTR-2A")

BooksImports == file_imports("Books")

\* pd.concat([ledger, df], ignore_index=True) with the ledger left out (mutant)
pd_concat_replacing(ledger, rows) == rows

\* lines 703, 745, 980, 1036: pd.concat([ledger, df], ignore_index=True)
pd_concat(ledger, rows) == ledger \o rows

\* load_gstr2a_data (lines 674-715)
LoadGstr2aData ==
    \E load \in Gstr2aImports :
        LET df == load.df
        IN  /\ load.auto_clean = auto_clean_gstin
            /\ df.ok => Len(gstr2a_data) + Len(books_data) + Len(df.rows) <= MaxRows
            /\ gstr2a_data' = IF df.ok THEN pd_concat(gstr2a_data, df.rows) ELSE gstr2a_data
            /\ call' = [op |-> "load_gstr2a_data", done |-> TRUE, ok |-> df.ok,
                        added |-> IF df.ok THEN Len(df.rows) ELSE 0]
            /\ UNCHANGED <<discrepancy_trees, summary_text, books_data, reconciliation_results, date_tolerance,
                           amount_tolerance, auto_clean_gstin>>

\* load_books_data (lines 717-757)
LoadBooksData ==
    \E load \in BooksImports :
        LET df == load.df
        IN  /\ load.auto_clean = auto_clean_gstin
            /\ df.ok => Len(gstr2a_data) + Len(books_data) + Len(df.rows) <= MaxRows
            /\ books_data' = IF df.ok THEN pd_concat(books_data, df.rows) ELSE books_data
            /\ call' = [op |-> "load_books_data", done |-> TRUE, ok |-> df.ok,
                        added |-> IF df.ok THEN Len(df.rows) ELSE 0]
            /\ UNCHANGED <<discrepancy_trees, summary_text, gstr2a_data, reconciliation_results, date_tolerance,
                           amount_tolerance, auto_clean_gstin>>

\* lines 968-977, 1024-1033: the normalized entry, rejected if empty or all null
manual_entry(source, f, auto_clean) ==
    LET df == clean_and_transform_data(ManualTable(source, f), source, {}, auto_clean)
    IN  IF df.rows = <<>> \/ iloc0_isnull_all(df.rows[1])
        THEN [ok |-> FALSE, rows |-> <<>>]
        ELSE [ok |-> TRUE, rows |-> df.rows]

\* the manual entries of a set of forms, each with the record it is normalized to
manual_entries(source, forms) ==
    {[auto_clean |-> ac, form |-> f, df |-> manual_entry(source, f, ac)] :
        f \in forms, ac \in BOOLEAN}

Gstr2aEntries == manual_entries("GSTR-2A", ManualEntries)

BooksEntries == manual_entries("Books", ManualEntries)

Gstr2aFormEntries == manual_entries("GSTR-2A", ManualForms)

BooksFormEntries == manual_entries("Books", ManualForms)

\* add_gstr2a_manual (lines 941-994) for an entry out of entries
add_gstr2a_manual(entries) ==
    \E entry \in entries :
        LET df == entry.df
        IN  /\ entry.auto_clean = auto_clean_gstin
            /\ Len(gstr2a_data) + Len(books_data) + Len(df.rows) <= MaxRows
            /\ gstr2a_data' = pd_concat(gstr2a_data, df.rows)
            /\ call' = [op |-> "add_gstr2a_manual", done |-> TRUE, ok |-> df.ok,
                        form |-> entry.form, added |-> Len(df.rows)]
            /\ UNCHANGED <<discrepancy_trees, summary_text, books_data, reconciliation_results, date_tolerance,
                           amount_tolerance, auto_clean_gstin>>

\* add_books_manual (lines 996-1050) for an entry out of entries
add_books_manual(entries) ==
    \E entry \in entries :
        LET df == entry.df
        IN  /\ entry.auto_clean = auto_clean_gstin
            /\ Len(gstr2a_data) + Len(books_data) + Len(df.rows) <= MaxRows
            /\ books_data' = pd_concat(books_data, df.rows)
            /\ call' = [op |-> "add_books_manual", done |-> TRUE, ok |-> df.ok,
                        form |-> entry.form, added |-> Len(df.rows)]
            /\ UNCHANGED <<discrepancy_trees, summary_text, gstr2a_data, reconciliation_results, date_tolerance,
                           amount_tolerance, auto_clean_gstin>>

AddGstr2aManual == add_gstr2a_manual(Gstr2aEntries)

AddBooksManual == add_books_manual(BooksEntries)

\* the two handlers with any form of ManualForms
AddGstr2aManualForm == add_gstr2a_manual(Gstr2aFormEntries)

AddBooksManualForm == add_books_manual(BooksFormEntries)

\* lines 1098-1109, 1139-1147: the match keys rebuilt from the selected lines of the
\* tree, which shows the invoice number and the identifier of every record
match_keys_to_delete(rows, selected_items) ==
    {str_strip(rows[i].invoice_no) \o <<"_">> \o clean_gstin(StrCell(str_strip(rows[i].supplier_gstin))) :
        i \in selected_items}

\* lines 1113, 1150: the records whose match key is not one to delete
without_match_keys(rows, keys) ==
    SeqAt(rows, {i \in DOMAIN rows : ~(rows[i].match_key.kind = "str" /\ rows[i].match_key.text \in keys)})

\* delete_gstr2a_manual (lines 1087-1127)
DeleteGstr2aManual ==
    \E selected_items \in SUBSET DOMAIN gstr2a_data, confirmed \in BOOLEAN :
        LET kept == IF selected_items = {} \/ ~confirmed THEN gstr2a_data
                    ELSE without_match_keys(gstr2a_data,
                                            match_keys_to_delete(gstr2a_data, selected_items))
        IN  /\ gstr2a_data' = kept
            /\ call' = [op |-> "delete_gstr2a_manual", done |-> TRUE,
                        selected_items |-> selected_items, confirmed |-> confirmed,
                        ok |-> Len(kept) < Len(gstr2a_data),
                        deleted |-> Len(gstr2a_data) - Len(kept)]
            /\ UNCHANGED <<discrepancy_trees, summary_text, books_data, reconciliation_results, date_tolerance,
                           amount_tolerance, auto_clean_gstin>>

\* delete_books_manual (lines 1129-1164)
DeleteBooksManual ==
    \E selected_items \in SUBSET DOMAIN books_data, confirmed \in BOOLEAN :
        LET kept == IF selected_items = {} \/ ~confirmed THEN books_data
                    ELSE without_match_keys(books_data,
                                            match_keys_to_delete(books_data, selected_items))
        IN  /\ books_data' = kept
            /\ call' = [op |-> "delete_books_manual", done |-> TRUE,
                        selected_items |-> selected_items, confirmed |-> confirmed,
                        ok |-> Len(kept) < Len(books_data),
                        deleted |-> Len(books_data) - Len(kept)]
            /\ UNCHANGED <<discrepancy_trees, summary_text, gstr2a_data, reconciliation_results, date_tolerance,
                           amount_tolerance, auto_clean_gstin>>

\* clear_gstr2a_import (lines 1270-1281)
ClearGstr2aImport ==
    \E confirmed \in BOOLEAN :
        /\ gstr2a_data' = IF confirmed THEN <<>> ELSE gstr2a_data
        /\ call' = [op |-> "clear_gstr2a_import", done |-> TRUE, ok |-> confirmed]
        /\ UNCHANGED <<discrepancy_trees, summary_text, books_data, reconciliation_results, date_tolerance,
                       amount_tolerance, auto_clean_gstin>>

\* clear_books_import (lines 1283-1295)
ClearBooksImport ==
    \E confirmed \in BOOLEAN :
        /\ books_data' = IF confirmed THEN <<>> ELSE books_data
        /\ call' = [op |-> "clear_books_import", done |-> TRUE, ok |-> confirmed]
        /\ UNCHANGED <<discrepancy_trees, summary_text, gstr2a_data, reconciliation_results, date_tolerance,
                       amount_tolerance, auto_clean_gstin>>

\* str.isdigit()
str_isdigit(s) == s # <<>> /\ \A i \in DOMAIN s : IsDigit(s[i])

\* float(s): the float, or ValueError (ok FALSE); a sign, digits, at most one dot
py_float(s) ==
    LET t     == str_strip(s)
        neg   == t # <<>> /\ t[1] = "-"
        body  == IF t # <<>> /\ t[1] \in {"-", "+"} THEN SubSeq(t, 2, Len(t)) ELSE t
        valid == /\ \A i \in DOMAIN body : IsDigitOrDot(body[i])
                 /\ \E i \in DOMAIN body : IsDigit(body[i])
                 /\ Cardinality({i \in DOMAIN body : body[i] = "."}) <= 1
    IN  IF valid THEN [ok |-> TRUE, value |-> Float(neg, to_numeric(body).mag)]
        ELSE [ok |-> FALSE]

\* max(0.0, x)
max_zero(x) == IF float_gt(x, FloatZero) THEN x ELSE FloatZero

\* what the user types in the settings tab
DateTolTexts == {<<"0">>, <<"-","1">>}

AmountTolTexts == {<<"1",".","0">>, <<"-","1">>, <<"a">>}

\* save_settings (lines 1823-1849): the date tolerance is stored before the amount
\* tolerance is parsed
SaveSettings ==
    \E date_tol_str \in DateTolTexts, amount_tol_str \in AmountTolTexts, auto_clean_var \in BOOLEAN :
        IF ~str_isdigit(date_tol_str)
        THEN /\ call' = [op |-> "save_settings", done |-> TRUE, ok |-> FALSE,
                          arg |-> [date_tol_str |-> date_tol_str,
                                   amount_tol_str |-> amount_tol_str,
                                   auto_clean_var |-> auto_clean_var]]
             /\ UNCHANGED <<discrepancy_trees, summary_text, gstr2a_data, books_data, reconciliation_results,
                            date_tolerance, amount_tolerance, auto_clean_gstin>>
        ELSE IF ~py_float(amount_tol_str).ok
        THEN /\ date_tolerance' = DigitsToInt(date_tol_str)
             /\ call' = [op |-> "save_settings", done |-> TRUE, ok |-> FALSE,
                          arg |-> [date_tol_str |-> date_tol_str,
                                   amount_tol_str |-> amount_tol_str,
                                   auto_clean_var |-> auto_clean_var]]
             /\ UNCHANGED <<discrepancy_trees, summary_text, gstr2a_data, books_data, reconciliation_results,
                            amount_tolerance, auto_clean_gstin>>
        ELSE /\ date_tolerance' = DigitsToInt(date_tol_str)
             /\ amount_tolerance' = max_zero(py_float(amount_tol_str).value)
             /\ auto_clean_gstin' = auto_clean_var
             /\ call' = [op |-> "save_settings", done |-> TRUE, ok |-> TRUE,
                          arg |-> [date_tol_str |-> date_tol_str,
                                   amount_tol_str |-> amount_tol_str,
                                   auto_clean_var |-> auto_clean_var]]
             /\ UNCHANGED <<discrepancy_trees, summary_text, gstr2a_data, books_data, reconciliation_results>>

NextLedgers ==
    \/ LoadGstr2aData
    \/ LoadBooksData
    \/ AddGstr2aManual
    \/ AddBooksManual
    \/ DeleteGstr2aManual
    \/ DeleteBooksManual
    \/ ClearGstr2aImport
    \/ ClearBooksImport
    \/ SaveSettings

SpecLedgers == Init /\ [][NextLedgers]_vars

\* the manual entry tabs and the settings on their own
NextManual ==
    \/ AddGstr2aManualForm
    \/ AddBooksManualForm
    \/ DeleteGstr2aManual
    \/ DeleteBooksManual
    \/ ClearGstr2aImport
    \/ ClearBooksImport
    \/ SaveSettings

SpecManual == Init /\ [][NextManual]_vars

\* where the save dialog of export_results points: nowhere (cancelled), a .csv file,
\* a .xlsx file
ExportPaths == {"", "report.csv", "report.xlsx"}

\* export_results (lines 1721-1767): the report is written to the chosen file, and to
\* a workbook also the summary of the stored report (lines 1756-1760)
ExportResults ==
    /\ UNCHANGED <<discrepancy_trees, summary_text, gstr2a_data, books_data, reconciliation_results,
                   date_tolerance, amount_tolerance, auto_clean_gstin>>
    /\ IF reconciliation_results.isnone \/ reconciliation_results.rows = <<>>
       THEN call' = [op |-> "export_results", done |-> TRUE, ok |-> FALSE, file_path |-> ""]
       ELSE \E file_path \in ExportPaths :
              call' = IF file_path = ""
                      THEN [op |-> "export_results", done |-> TRUE, ok |-> FALSE,
                            file_path |-> file_path]
                      ELSE IF file_path = "report.csv"
                      THEN [op |-> "export_results", done |-> TRUE, ok |-> TRUE,
                            file_path |-> file_path,
                            rows |-> reconciliation_results.rows]
                      ELSE [op |-> "export_results", done |-> TRUE, ok |-> TRUE,
                            file_path |-> file_path,
                            rows |-> reconciliation_results.rows,
                            summary |-> get_summary_text(reconciliation_results.rows,
                                                         date_tolerance, amount_tolerance)]

\* show_data_summary (lines 1851-1930): a dialog with the number of records of the two
\* ledgers and of the report; nothing is stored
ShowDataSummary ==
    /\ UNCHANGED <<discrepancy_trees, summary_text, gstr2a_data, books_data, reconciliation_results,
                   date_tolerance, amount_tolerance, auto_clean_gstin>>
    /\ call' = [op |-> "show_data_summary", done |-> TRUE,
                gstr2a_records |-> Len(gstr2a_data),
                books_records |-> Len(books_data),
                discrepancies |-> IF reconciliation_results.isnone THEN -1
                                  ELSE Len(reconciliation_results.rows)]

\* every operation of the application on the ledgers, the settings and the report
NextApp ==
    \/ NextLedgers
    \/ RunReconciliation
    \/ ExportResults
    \/ ShowDataSummary

SpecApp == Init /\ [][NextApp]_vars

AllRecords ==
    {gstr2a_data[i] : i \in DOMAIN gstr2a_data} \cup {books_data[i] : i \in DOMAIN books_data}

EmptyOrFifteen(g) == Len(g) = 0 \/ Len(g) = GstinLen

\* C8 as stated: in every reachable state every record of either ledger has a
\* supplier_gstin that is empty or 15 characters long, whatever auto_clean_gstin was
\* when the record came in.
C8_EveryIdentifierFifteenOrEmpty ==
    \A r \in AllRecords : EmptyOrFifteen(r.supplier_gstin)

\* the records the last call appended to its ledger
LastAppended ==
    IF call.op \in {"load_gstr2a_data", "add_gstr2a_manual"}
    THEN {gstr2a_data[i] : i \in (Len(gstr2a_data) - call.added + 1)..Len(gstr2a_data)}
    ELSE IF call.op \in {"load_books_data", "add_books_manual"}
    THEN {books_data[i] : i \in (Len(books_data) - call.added + 1)..Len(books_data)}
    ELSE {}

\* C8 amended: every record that a file import or a manual add appends to a ledger
\* while auto_clean_gstin is on has a supplier_gstin that is empty or 15 characters
\* long (a record appended while it is off keeps the identifier it came with).
C8_CleansedIdentifierFifteenOrEmpty ==
    auto_clean_gstin => \A r \in LastAppended : EmptyOrFifteen(r.supplier_gstin)

\* a file import made while auto_clean_gstin is on has appended a record whose short
\* identifier was filled to 15 characters, next to a record that came in while it was
\* off and kept its 3 characters
C8_Witness ==
    /\ auto_clean_gstin
    /\ call.op = "load_gstr2a_data" /\ call.ok /\ call.added = 1
    /\ Len(gstr2a_data) = 2
    /\ Len(gstr2a_data[2].supplier_gstin) = 15
    /\ gstr2a_data[2].supplier_gstin # GSTIN1.text
    /\ Len(gstr2a_data[1].supplier_gstin) = 3

(***************************************************************************)
(* The report, its summary and the settings.                               *)
(***************************************************************************)
\* C14: a summary written for the stored report shows the tolerances that the run
\* which stored it compared with.  The summary box was filled by that run (lines 1341,
\* 1347) and keeps its tolerance lines, so the summary sheet of a later export must
\* show the same two values, whatever save_settings did in between.
C14_SummaryShowsTolerancesUsed ==
    (call.op = "export_results" /\ call.ok /\ call.file_path = "report.xlsx") =>
        /\ ~summary_text.empty
        /\ call.summary.date_tolerance = summary_text.text.date_tolerance
        /\ call.summary.amount_tolerance = summary_text.text.amount_tolerance

\* a tolerance text that is not a number, or is a number below zero
tolerance_text_invalid(s) ==
    \/ ~py_float(s).ok
    \/ py_float(s).value.neg /\ py_float(s).value.mag # BigZero

\* C15: a save_settings whose date tolerance text is non-numeric or negative reports
\* an error and leaves date_tolerance as it was, and one whose amount tolerance text is
\* non-numeric or negative reports an error and leaves amount_tolerance as it was: a
\* negative text is never stored as 0 with a success message.
C15_InvalidToleranceRejected ==
    [][call'.op = "save_settings" =>
          /\ tolerance_text_invalid(call'.arg.date_tol_str)
                => ~call'.ok /\ date_tolerance' = date_tolerance
          /\ tolerance_text_invalid(call'.arg.amount_tol_str)
                => ~call'.ok /\ amount_tolerance' = amount_tolerance]_vars

\* the rows of a report as a bag
RowBag(rows) == [r \in Range(rows) |-> Cardinality({i \in DOMAIN rows : rows[i] = r})]

\* C16: every run_reconciliation that passes its checks leaves as the stored report
\* exactly the discrepancies of that run, computed from the ledgers and tolerances of
\* the moment, whatever report was stored before; a run that directly follows a run,
\* on the same ledgers and settings, leaves the same discrepancies, each as often as
\* before.
C16_ReportReplacedByEachRun ==
    [][(call'.op = "run_reconciliation" /\ call'.ok) =>
          /\ ~reconciliation_results'.isnone
          /\ reconciliation_results'.rows
                \in perform_reconciliation(gstr2a_data, books_data,
                                           date_tolerance, amount_tolerance)
          /\ (call.op = "run_reconciliation" /\ call.ok)
                => RowBag(reconciliation_results'.rows) = RowBag(reconciliation_results.rows)]_vars

\* a run has stored a report of two discrepancies over a report that was already
\* stored, after the date tolerance was changed
C16_Witness ==
    /\ call.op = "run_reconciliation" /\ call.ok /\ call.had_report
    /\ Len(reconciliation_results.rows) = 2
    /\ date_tolerance = 0

(***************************************************************************)
(* How the ledgers change.                                                 *)
(***************************************************************************)
\* new holds old and after it the records that came in
Appended(old, new) == Len(new) >= Len(old) /\ SubSeq(new, 1, Len(old)) = old

\* new holds some of the records of old, in their order, and nothing else
OnlyRemoved(old, new) == \E I \in SUBSET DOMAIN old : new = SeqAt(old, I)

\* C20: an import or a manual add leaves its ledger with the records it had, unchanged
\* and in their order, followed by the new ones; a delete or a clear leaves its ledger
\* with some of the records it had, unchanged and in their order; each of them leaves
\* the other ledger as it was, and run_reconciliation, save_settings, export_results
\* and show_data_summary leave both ledgers as they were.
C20_LedgerMutationDiscipline ==
    [][/\ call'.op \in {"load_gstr2a_data", "add_gstr2a_manual"}
            => Appended(gstr2a_data, gstr2a_data') /\ books_data' = books_data
       /\ call'.op \in {"load_books_data", "add_books_manual"}
            => Appended(books_data, books_data') /\ gstr2a_data' = gstr2a_data
       /\ call'.op \in {"delete_gstr2a_manual", "clear_gstr2a_import"}
            => OnlyRemoved(gstr2a_data, gstr2a_data') /\ books_data' = books_data
       /\ call'.op \in {"delete_books_manual", "clear_books_import"}
            => OnlyRemoved(books_data, books_data') /\ gstr2a_data' = gstr2a_data
       /\ call'.op \in {"run_reconciliation", "save_settings", "export_results",
                         "show_data_summary"}
            => gstr2a_data' = gstr2a_data /\ books_data' = books_data
       /\ call'.op \in {"load_gstr2a_data", "add_gstr2a_manual", "load_books_data",
                         "add_books_manual", "delete_gstr2a_manual", "clear_gstr2a_import",
                         "delete_books_manual", "clear_books_import", "run_reconciliation",
                         "save_settings", "export_results", "show_data_summary"}]_vars

\* a manual add has put a second, different record after the one the Books ledger
\* held, while a report is stored
C20_Witness ==
    /\ call.op = "add_books_manual" /\ call.ok /\ call.added = 1
    /\ Len(books_data) = 2
    /\ books_data[1] # books_data[2]
    /\ ~reconciliation_results.isnone

(***************************************************************************)
(* Short identifiers.                                                      *)
(***************************************************************************)
\* C21: for every raw identifier that is not null or blank and has fewer than 15
\* characters after trimming and stripping what is not a letter or digit, the value
\* clean_gstin returns is that text right-padded with 'X', it fails the structural
\* check, and the invalid warning is logged for it.
C21_ShortIdentifierNeverWellFormed ==
    (/\ CleanGstinReturned
     /\ ~(NullOrBlank(call.arg) \/ NanOrNoneText(call.arg))
     /\ Len(TrimmedUpperAlnum(call.arg)) < GstinLen) =>
        /\ call.ret = FifteenOf(TrimmedUpperAlnum(call.arg))
        /\ ~Structured(call.ret, DigitChars \cup LetterChars)
        /\ call.warned

(***************************************************************************)
(* The order of the report.                                                *)
(***************************************************************************)
\* the place of a discrepancy among the five groups of the report
GroupOf(d) ==
    CASE TagsOf(d) = <<"Duplicate in GSTR-2A">> -> 1
      [] TagsOf(d) = <<"Duplicate in Books">>   -> 2
      [] TagsOf(d) = <<"Missing in Books">>     -> 3
      [] TagsOf(d) = <<"Missing in GSTR-2A">>   -> 4
      [] OTHER                                  -> 5

\* the rows of the report that belong to the group g, in report order
GroupRows(g) == SeqAt(Report, {i \in DOMAIN Report : GroupOf(Report[i]) = g})

\* the records of a ledger whose defined key another record of the ledger carries too,
\* in ledger order
RepeatedRecords(rows) ==
    SeqAt(rows, {i \in DOMAIN rows :
                    /\ HasKey(rows[i])
                    /\ Cardinality(RecordsOf(rows, rows[i].match_key.text)) > 1})

\* C22: in the report of a run all duplicate-in-GSTR-2A discrepancies come first, then
\* all duplicate-in-Books, then all 'Missing in Books', then all 'Missing in GSTR-2A',
\* then all discrepancies of source 'Both'; the duplicate discrepancies of a ledger
\* stand in the order of the ledger's records they report.
C22_ReportOrdering ==
    JustReconciled =>
        /\ \A i, j \in DOMAIN Report : i < j => GroupOf(Report[i]) <= GroupOf(Report[j])
        /\ \A i \in DOMAIN Report : GroupOf(Report[i]) = 5 <=> Report[i].Source = "Both"
        /\ LET D == GroupRows(1)
               R == RepeatedRecords(gstr2a_data)
           IN  /\ Len(D) = Len(R)
               /\ \A i \in DOMAIN D : /\ D[i].Invoice_No = R[i].invoice_no
                                      /\ D[i].GSTR2A_GSTIN = R[i].supplier_gstin
                                      /\ D[i].GSTR2A_Date = R[i].invoice_date
        /\ LET D == GroupRows(2)
               R == RepeatedRecords(books_data)
           IN  /\ Len(D) = Len(R)
               /\ \A i \in DOMAIN D : /\ D[i].Invoice_No = R[i].invoice_no
                                      /\ D[i].Books_GSTIN = R[i].supplier_gstin
                                      /\ D[i].Books_Date = R[i].invoice_date

\* a report with duplicates of both ledgers, a missing invoice and a discrepancy of
\* source 'Both', for a GSTR-2A ledger whose repeated records differ in their date
C22_Witness ==
    /\ JustReconciled
    /\ GroupRows(1) # <<>> /\ GroupRows(2) # <<>> /\ GroupRows(5) # <<>>
    /\ GroupRows(3) # <<>> \/ GroupRows(4) # <<>>
    /\ \E i, j \in DOMAIN GroupRows(1) : GroupRows(1)[i].GSTR2A_Date # GroupRows(1)[j].GSTR2A_Date

(***************************************************************************)
(* The match key under identifier cleansing.                               *)
(***************************************************************************)
\* the records of both ledgers
BothLedgers == Range(gstr2a_data) \cup Range(books_data)

\* C23: in the report of a run over ledgers whose records were all added with
\* identifier cleansing on, two records with equal defined match keys have equal
\* invoice numbers and equal identifiers, and no discrepancy is tagged 'GSTIN mismatch'.
C23_NoMismatchUnderCleansing ==
    (JustReconciled /\ auto_clean_gstin) =>
        /\ \A a, b \in BothLedgers :
              (HasKey(a) /\ HasKey(b) /\ a.match_key = b.match_key) =>
                  /\ a.invoice_no = b.invoice_no
                  /\ a.supplier_gstin = b.supplier_gstin
        /\ \A i \in DOMAIN Report : ~Tagged(i, "GSTIN mismatch")

\* a run with cleansing on has compared two records of one key whose identifier was
\* filled up to 15 characters, and has reported them for another reason
C23_Witness ==
    /\ JustReconciled /\ auto_clean_gstin
    /\ \E i \in DOMAIN Report :
          /\ Report[i].Source = "Both"
          /\ Report[i].GSTR2A_GSTIN[GstinLen] = "X"
          /\ Report[i].Books_GSTIN = Report[i].GSTR2A_GSTIN

(***************************************************************************)
(* The sign of the amounts.                                                *)
(***************************************************************************)
NotNegative(x) == x.mag = BigZero \/ ~x.neg

NotPositive(x) == x.mag = BigZero \/ x.neg

\* C24: in every state the numeric fields of every ledger record are >= 0; every
\* 'Missing in Books' discrepancy of the stored report has amount and tax differences
\* >= 0 and every 'Missing in GSTR-2A' discrepancy has them <= 0.
C24_SignInvariant ==
    /\ \A r \in BothLedgers :
          \A f \in {"taxable_value", "cgst", "sgst", "igst", "total_amount"} : NotNegative(r[f])
    /\ \A i \in DOMAIN Report :
          /\ TagsOf(Report[i]) = <<"Missing in Books">> =>
                NotNegative(Report[i].Amount_Diff) /\ NotNegative(Report[i].Tax_Diff)
          /\ TagsOf(Report[i]) = <<"Missing in GSTR-2A">> =>
                NotPositive(Report[i].Amount_Diff) /\ NotPositive(Report[i].Tax_Diff)

\* the record of an entry whose CGST was typed with a minus sign is in a ledger, and
\* the stored report holds a 'Missing in GSTR-2A' discrepancy with a tax difference
\* below zero and a 'Missing in Books' discrepancy with one above zero
C24_Witness ==
    /\ \E r \in BothLedgers : r.cgst = float_of_decimal(5, 0)
    /\ \E i \in DOMAIN Report :
          /\ TagsOf(Report[i]) = <<"Missing in GSTR-2A">>
          /\ Report[i].Tax_Diff.neg /\ Report[i].Tax_Diff.mag # BigZero
    /\ \E i \in DOMAIN Report :
          /\ TagsOf(Report[i]) = <<"Missing in Books">>
          /\ ~Report[i].Tax_Diff.neg /\ Report[i].Tax_Diff.mag # BigZero

(***************************************************************************)
(* Delete selected.                                                        *)
(***************************************************************************)
\* the records of a ledger that are not among the selected ones, in ledger order
NotSelected(rows, selected) == SeqAt(rows, DOMAIN rows \ selected)

\* C25: after a confirmed delete_gstr2a_manual or delete_books_manual with a selection,
\* the ledger holds exactly the records it held that were not selected, in their
\* original order.
C25_DeleteRemovesExactlySelection ==
    [][/\ (call'.op = "delete_gstr2a_manual" /\ call'.confirmed /\ call'.selected_items # {})
            => gstr2a_data' = NotSelected(gstr2a_data, call'.selected_items)
       /\ (call'.op = "delete_books_manual" /\ call'.confirmed /\ call'.selected_items # {})
            => books_data' = NotSelected(books_data, call'.selected_items)]_vars

(***************************************************************************)
(* What changes the stored report.                                         *)
(***************************************************************************)
\* C26: the stored report changes only in a run_reconciliation over two non-empty
\* ledgers; a run with an empty ledger, an import, manual add, delete, clear,
\* save_settings, export and data summary leave it as it was, and an export that
\* writes a file writes the rows of the stored report.
C26_ReportChangesOnlyInPassingRun ==
    [][/\ reconciliation_results' # reconciliation_results
            => /\ call'.op = "run_reconciliation" /\ call'.ok
               /\ gstr2a_data # <<>> /\ books_data # <<>>
       /\ (call'.op = "export_results" /\ call'.ok)
            => call'.rows = reconciliation_results.rows]_vars

\* the report of an earlier run has been exported after the GSTR-2A ledger was emptied
\* and a run over the emptied ledger was refused
C26_Witness ==
    /\ call.op = "export_results" /\ call.ok
    /\ gstr2a_data = <<>> /\ books_data # <<>>
    /\ call.rows = reconciliation_results.rows /\ call.rows # <<>>

(***************************************************************************)
(* save_settings as a whole.                                               *)
(***************************************************************************)
\* C27: a save_settings that reports an error leaves date_tolerance, amount_tolerance
\* and auto_clean_gstin with the values they had before the call; and before and after
\* every step date_tolerance is an integer >= 0 and amount_tolerance is >= 0.
C27_SaveSettingsAllOrNothing ==
    [][/\ (call'.op = "save_settings" /\ ~call'.ok)
            => /\ date_tolerance' = date_tolerance
               /\ amount_tolerance' = amount_tolerance
               /\ auto_clean_gstin' = auto_clean_gstin
       /\ date_tolerance \in Nat /\ date_tolerance' \in Nat
       /\ NotNegative(amount_tolerance) /\ NotNegative(amount_tolerance')]_vars

(***************************************************************************)
(* Manual entries without data.                                            *)
(***************************************************************************)
\* every field of the form is empty once trimmed
FormIsBlank(f) == \A k \in DOMAIN f : f[k].kind = "str" /\ str_strip(f[k].text) = <<>>

\* C28: add_gstr2a_manual or add_books_manual with every field of the form blank
\* reports an error and leaves the ledger as it was; with data in the form the ledger
\* grows by exactly one record.
C28_BlankManualEntryRejected ==
    [][/\ call'.op = "add_gstr2a_manual" =>
            IF FormIsBlank(call'.form)
            THEN ~call'.ok /\ gstr2a_data' = gstr2a_data
            ELSE Len(gstr2a_data') = Len(gstr2a_data) + 1
       /\ call'.op = "add_books_manual" =>
            IF FormIsBlank(call'.form)
            THEN ~call'.ok /\ books_data' = books_data
            ELSE Len(books_data') = Len(books_data) + 1]_vars

(***************************************************************************)
(* The result views.                                                       *)
(***************************************************************************)
\* the category view of a tag of the issue classification
ViewOfTag(tag) ==
    CASE tag = "Missing in Books" -> "missing_in_books"
      [] tag = "Missing in GSTR-2A" -> "missing_in_gstr2a"
      [] tag \in {"Date diff", "One invoice date missing"} -> "date_mismatch"
      [] tag \in {"Amount diff", "Tax diff"} -> "amount_mismatch"
      [] tag = "GSTIN mismatch" -> "gstin_mismatch"
      [] tag \in {"Duplicate in GSTR-2A", "Duplicate in Books"} -> "duplicates"

\* the category views that show the row i of the report
ViewsShowing(i) ==
    {key \in TreeKeys \ {"all"} : i \in Range(discrepancy_trees[key])}

\* C29: after a run every discrepancy of the report is shown in the 'all' view and in
\* exactly one category view, and that view is the one of a tag of its issue type.
C29_ResultRouting ==
    JustReconciled =>
        \A i \in DOMAIN Report :
            /\ i \in Range(discrepancy_trees["all"])
            /\ Cardinality(ViewsShowing(i)) = 1
            /\ \E tag \in Range(TagsOf(Report[i])) : ViewOfTag(tag) \in ViewsShowing(i)

(***************************************************************************)
(* One discrepancy for a key.                                              *)
(***************************************************************************)
AllKeys == KeysOf(gstr2a_data) \cup KeysOf(books_data)

\* the discrepancies of the report that are not duplicate rows
NonDuplicates == {i \in DOMAIN Report : Report[i].Source = "Both"} \cup MissingIn(Report)

\* the non-duplicate discrepancies of the report made for the key k
AboutKey(k) ==
    TaggedInGstr2a("Missing in Books", k)
    \cup TaggedInBooks("Missing in GSTR-2A", k)
    \cup (IF k \in KeysOf(gstr2a_data) \cap KeysOf(books_data) THEN MismatchesOf(k) ELSE {})

\* C30: after a run the report holds at most one non-duplicate discrepancy for a defined
\* match key, whatever the number of records that carry the key; every non-duplicate
\* discrepancy is made for a key of the ledgers, and there are at most as many of them
\* as there are distinct defined keys in the two ledgers
C30_OneDiscrepancyPerKey ==
    JustReconciled =>
        /\ \A k \in AllKeys : Cardinality(AboutKey(k)) <= 1
        /\ NonDuplicates = UNION {AboutKey(k) : k \in AllKeys}
        /\ Cardinality(NonDuplicates) <= Cardinality(AllKeys)

\* a report with a 'Both' discrepancy for a key that several records of each ledger
\* carry, next to a missing discrepancy for another key
C30_Witness ==
    /\ JustReconciled
    /\ \E k \in KeysOf(gstr2a_data) \cap KeysOf(books_data) :
          /\ Cardinality(RecordsOf(gstr2a_data, k)) >= 2
          /\ Cardinality(RecordsOf(books_data, k)) >= 2
          /\ MismatchesOf(k) # {}
    /\ \E k \in AllKeys : AboutKey(k) \cap MissingIn(Report) # {}

====
